---- MODULE Spec2Model ----
(***************************************************************************)
(* Booking-resource scheduling core of the hotel transport service         *)
(* (src/index.tsx): the booking store, the driver and vehicle registries,  *)
(* the cached views of bookings (lastBooking, guestBookings,               *)
(* selectedBooking), the assignment validation of                          *)
(* AdminBookingItem.handleSave and its commit handleAssignDriver,          *)
(* handleCancelBooking, the payment success handler, the driver            *)
(* online/offline toggle with its driverStatus sync effect and the         *)
(* tracking interval callbacks of the driver and guest views.              *)
(*                                                                         *)
(* Every event handler is one action.  A useEffect that a handler's state  *)
(* update triggers is part of the action of that handler.                  *)
(***************************************************************************)
EXTENDS Integers, Sequences, FiniteSets, TLC

VARIABLES
    bookings,             \* App state `bookings`: the booking store (a list)
    drivers,              \* App state `drivers`
    vehicleTypes,         \* App state `vehicleTypes`: type name -> list of vehicles
    lastBooking,          \* App state `lastBooking`: <<>> is null, <<b>> a copy
    guestBookings,        \* App state `guestBookings`: list of copies
    selectedBooking,      \* App state `selectedBooking`: <<>> is null, <<b>> a copy
    currentUserRole,      \* 'guest' | 'admin' | 'driver'
    isTracking,           \* guest status view requested
    isConfirmationVisible,\* confirmation screen shown
    isEditingAssignment,  \* confirmation number under edit in the admin view, or Null
    loggedInDriver,       \* <<>> or <<driver record as of login>>
    assignmentError,      \* what the last handleSave reported ("" when it passed)
    formError,            \* App state `formError` of the booking form
    intervalRefs,         \* confirmation numbers that have a timer in intervalRefs.current
    watches,              \* usernames of the drivers with a geolocation watch
                          \* that was registered and never cleared
    checkout,             \* <<>> or <<what the success handler of the open payment
                          \* checkout captured when handlePayment ran>>
    windowTimers,         \* for each confirmation number, the running window timers
                          \* whose callback writes the booking of that number
    steps                 \* number of handler and callback runs so far

vars == <<bookings, drivers, vehicleTypes, lastBooking, guestBookings,
          selectedBooking, currentUserRole, isTracking, isConfirmationVisible,
          isEditingAssignment, loggedInDriver, assignmentError, formError,
          intervalRefs, windowTimers, watches, checkout, steps>>

----------------------------------------------------------------------------
(* Bounds of the model *)

\* the store holds at most this many bookings (create is disabled beyond it)
MaxBookings == 2

\* how many of the initial drivers the registry starts with
NumDrivers == 2

\* a behaviour of the model runs at most this many handlers and callbacks
MaxSteps == 10

\* a behaviour of OverlapSpec runs at most this many handlers
OverlapSteps == 4
TrackSteps == 7
DriverSteps == 6
PaySteps == 8
RegistrySteps == 4
MaxDrivers == 3
MaxVehicles == 2

----------------------------------------------------------------------------
(* Values *)

Null == "null"

\* confirmation numbers the generative text service may return (handleBooking
\* takes resultJson.confirmationNumber as it comes)
ConfirmationNumbers == {"CN1", "CN2"}

\* the pickup date (one day) and pickup times, in minutes after midnight:
\* 10:00, 11:00 and 11:30
Dates == {1}
Times == {600, 660, 690}

GuestPhones == {"guest-phone"}

\* a form field holds <<>> when it is empty ('') and <<value>> when filled in
Empty == <<>>

\* the request a guest submits for each pickup time: its location, vehicle
\* type and service type
\* (the location as the guest types it, a list of words)
RequestAt(time) ==
    CASE time = 600 -> [location |-> <<"Jabalpur", "Airport">>,
                        selectedVehicleType |-> "Standard Sedan",
                        serviceType |-> "pickup"]
      [] time = 660 -> [location |-> <<"Madan", "Mahal", "Station">>,
                        selectedVehicleType |-> "SUV",
                        serviceType |-> "dropoff"]
      [] OTHER      -> [location |-> <<"City", "Mall">>,
                        selectedVehicleType |-> "SUV",
                        serviceType |-> "pickup"]

\* the booking form as submitted, every required field filled in
ValidForms ==
    { [guestName |-> <<"guest">>, guestPhone |-> <<p>>,
       location |-> <<RequestAt(t).location>>, date |-> <<d>>, time |-> <<t>>,
       selectedVehicleType |-> RequestAt(t).selectedVehicleType,
       serviceType |-> RequestAt(t).serviceType] :
         p \in GuestPhones, d \in Dates, t \in Times }

\* the required fields of the form
RequiredFields == {"guestName", "guestPhone", "location", "date", "time"}

\* a valid form with one required field left empty
InvalidForms ==
    { [f EXCEPT ![k] = Empty] : f \in {g \in ValidForms : g.time = <<600>>},
                                k \in RequiredFields }

\* what the call of the generative text service gives: a parsed result with a
\* confirmation number, or a failure (the call throws or the text does not parse)
ServiceFailure == [ok |-> FALSE, confirmationNumber |-> Null]
ServiceResults ==
    { [ok |-> TRUE, confirmationNumber |-> cn] : cn \in ConfirmationNumbers }
    \cup {ServiceFailure}

PaymentIds == {"pay_A", "pay_B"}

\* the value of Date.getTime() for a string that does not parse; as a date or
\* time, a text that does not parse
NaN == -1

\* the dates that parse, as day numbers; Dates are the ones the form submits
CalendarDays == 1..2

NullVehicle == [plate |-> Null, model |-> Null]

\* INITIAL_DRIVERS as the source lists them
ALL_INITIAL_DRIVERS ==
    << [name |-> "Ravi Kumar", phone |-> "9876543210", username |-> "ravi",
        status |-> "online", position |-> Null],
       [name |-> "Sunita Sharma", phone |-> "8765432109", username |-> "sunita",
        status |-> "online", position |-> Null],
       [name |-> "Amit Singh", phone |-> "7654321098", username |-> "amit",
        status |-> "online", position |-> Null],
       [name |-> "Priya Patel", phone |-> "6543210987", username |-> "priya",
        status |-> "online", position |-> Null] >>

\* the registry starts with the first NumDrivers of them
INITIAL_DRIVERS == SubSeq(ALL_INITIAL_DRIVERS, 1, NumDrivers)

\* INITIAL_VEHICLE_TYPES, the first sedan and the SUV
VehicleTypeKeys == << "Standard Sedan", "SUV" >>

INITIAL_VEHICLE_TYPES ==
    [t \in {"Standard Sedan", "SUV"} |->
        IF t = "Standard Sedan"
        THEN << [plate |-> "MP20TA7001", model |-> "Tata Tigor XM EV"] >>
        ELSE << [plate |-> "MP20TA1969", model |-> "Toyota Innova"] >>]

\* what the driver and vehicle selects of the assignment form may hold: '' or
\* a name / plate
DriverChoices == {""} \cup {INITIAL_DRIVERS[i].name : i \in DOMAIN INITIAL_DRIVERS}
VehicleChoices == {"", "MP20TA7001", "MP20TA1969"}

\* elapsed time of a tracking timer when its callback runs, in seconds: the
\* callback runs no earlier than 1 s after the timer started
ElapsedChoices == {1000, 20000}

----------------------------------------------------------------------------
(* Sequence helpers *)

Range(s) == {s[i] : i \in DOMAIN s}

----------------------------------------------------------------------------
(* Overlap Detector *)

DURATION == 90

\* new Date(`${date}T${time}`).getTime(), in minutes; NaN for a date or time
\* that does not parse
StartOf(b) ==
    IF b.date \in CalendarDays /\ b.time \in 0..1439 THEN b.date * 1440 + b.time
    ELSE NaN

\* mutant of isTimeOverlapping: closed windows, touching endpoints conflict
isTimeOverlapping_Closed(bookingA, bookingB) ==
    LET startA == StartOf(bookingA)
        startB == StartOf(bookingB)
    IN  IF startA = NaN THEN FALSE
        ELSE IF startB = NaN THEN FALSE
        ELSE startA <= startB + DURATION /\ startA + DURATION >= startB

\* mutant of isTimeOverlapping: only a window that starts first conflicts
isTimeOverlapping_OneSided(bookingA, bookingB) ==
    LET startA == StartOf(bookingA)
        startB == StartOf(bookingB)
    IN  IF startA = NaN THEN FALSE
        ELSE IF startB = NaN THEN FALSE
        ELSE startA <= startB /\ startA + DURATION > startB

\* mutant of isTimeOverlapping: a start that does not parse conflicts with
\* everything
isTimeOverlapping_FailClosed(bookingA, bookingB) ==
    LET startA == StartOf(bookingA)
        startB == StartOf(bookingB)
    IN  IF startA = NaN THEN TRUE
        ELSE IF startB = NaN THEN TRUE
        ELSE startA < startB + DURATION /\ startA + DURATION > startB

isTimeOverlapping(bookingA, bookingB) ==
    LET startA == StartOf(bookingA)
        startB == StartOf(bookingB)
    IN  IF startA = NaN THEN FALSE
        ELSE IF startB = NaN THEN FALSE
        ELSE LET endA == startA + DURATION
                 endB == startB + DURATION
             IN  startA < endB /\ endA > startB

----------------------------------------------------------------------------
(* Tracking Simulator, the values one timer callback writes *)

\* duration of the simulation, in milliseconds
SimDuration == 20000

\* progress = Math.min(elapsed / duration, 1), kept as the number of
\* milliseconds out of SimDuration
ProgressOf(elapsed) == IF elapsed >= SimDuration THEN SimDuration ELSE elapsed

\* driverPosition.x = 15 + (85 - 15) * progress, kept times 2000
\* (30000 .. 170000)
PositionOf(progress) == 30000 + 7 * progress

\* Math.round(totalMinutes * (1 - progress)) as the double arithmetic of the
\* source gives it for progress = p / 20000: the nearest integer, halves up, of
\* 15 * (20000 - p) / 20000, except at p = 18000, where 1 - 0.9 is
\* 0.09999999999999998 and the product 1.4999999999999996 rounds to 1
RemainingMinutes(progress) ==
    IF progress = 18000 THEN 1
    ELSE (2 * 15 * (SimDuration - progress) + SimDuration) \div (2 * SimDuration)

\* calculateSimulatedETA; 0.95 is 19000 out of SimDuration.  The text
\* `approx. ${n} mins` is the tuple <<"approx.", n, "mins">>
calculateSimulatedETA(progress) ==
    IF progress >= SimDuration THEN <<"Arrived">>
    ELSE IF progress > 19000 THEN <<"Arriving now">>
    ELSE LET remainingMinutes == RemainingMinutes(progress)
         IN  IF remainingMinutes <= 1 THEN <<"Less than a minute">>
             ELSE <<"approx.", remainingMinutes, "mins">>

----------------------------------------------------------------------------
(* Fare Estimator *)

FARE_AIRPORT == 500
FARE_STATION == 250
FARE_OTHER_ABOVE_5KM == 500

\* the multiplier of the vehicle type, doubled: SUV_MULTIPLIER is 1.5
SUV_MULTIPLIER_x2 == 3

\* 1 + GST_RATE, in hundredths
GST_FACTOR_x100 == 118

\* word.toLowerCase() for the words of Locations
ToLowerCase(word) ==
    CASE word = "Jabalpur" -> "jabalpur"
      [] word = "Airport"  -> "airport"
      [] word = "AIRPORT"  -> "airport"
      [] word = "Madan"    -> "madan"
      [] word = "Mahal"    -> "mahal"
      [] word = "Railway"  -> "railway"
      [] word = "Station"  -> "station"
      [] word = "City"     -> "city"
      [] word = "Mall"     -> "mall"
      [] OTHER             -> word

\* text.includes(phrase), on lists of words
Includes(text, phrase) ==
    \E k \in 0..(Len(text) - Len(phrase)) :
        SubSeq(text, k + 1, k + Len(phrase)) = phrase

\* mutant of estimateFare: the station phrases are looked for before 'airport'
estimateFare_StationFirst(location, selectedVehicleType) ==
    LET normalizedLocation == [i \in DOMAIN location |-> ToLowerCase(location[i])]
        baseFare ==
            IF \/ Includes(normalizedLocation, <<"jabalpur", "railway", "station">>)
                    \/ Includes(normalizedLocation, <<"madan", "mahal", "railway", "station">>)
                    \/ Includes(normalizedLocation, <<"jabalpur", "station">>)
                    \/ Includes(normalizedLocation, <<"madan", "mahal", "station">>)
                 THEN FARE_STATION
                 ELSE IF Includes(normalizedLocation, <<"airport">>) THEN FARE_AIRPORT
                 ELSE FARE_OTHER_ABOVE_5KM
        fareBeforeGst_x2 == baseFare * (IF selectedVehicleType = "SUV"
                                        THEN SUV_MULTIPLIER_x2 ELSE 2)
    IN  \* Math.round(fareBeforeGst * 1.18)
        (fareBeforeGst_x2 * GST_FACTOR_x100 + 100) \div 200

\* estimateFare for the form's location and selectedVehicleType
estimateFare(location, selectedVehicleType) ==
    LET normalizedLocation == [i \in DOMAIN location |-> ToLowerCase(location[i])]
        baseFare ==
            IF Includes(normalizedLocation, <<"airport">>) THEN FARE_AIRPORT
            ELSE IF \/ Includes(normalizedLocation, <<"jabalpur", "railway", "station">>)
                    \/ Includes(normalizedLocation, <<"madan", "mahal", "railway", "station">>)
                    \/ Includes(normalizedLocation, <<"jabalpur", "station">>)
                    \/ Includes(normalizedLocation, <<"madan", "mahal", "station">>)
                 THEN FARE_STATION
                 ELSE FARE_OTHER_ABOVE_5KM
        fareBeforeGst_x2 == baseFare * (IF selectedVehicleType = "SUV"
                                        THEN SUV_MULTIPLIER_x2 ELSE 2)
    IN  \* Math.round(fareBeforeGst * 1.18)
        (fareBeforeGst_x2 * GST_FACTOR_x100 + 100) \div 200

----------------------------------------------------------------------------
(* Entity Store lookups *)

\* drivers.find(d => d.name === driverName): index of the first match, 0 if none
RECURSIVE FindFrom(_, _, _)
FindFrom(drvs, driverName, i) ==
    IF i > Len(drvs) THEN 0
    ELSE IF drvs[i].name = driverName THEN i
    ELSE FindFrom(drvs, driverName, i + 1)

FindDriver(drvs, driverName) == FindFrom(drvs, driverName, 1)

\* drivers.find(d => d.username === username)
RECURSIVE FindUserFrom(_, _, _)
FindUserFrom(drvs, username, i) ==
    IF i > Len(drvs) THEN 0
    ELSE IF drvs[i].username = username THEN i
    ELSE FindUserFrom(drvs, username, i + 1)

FindUsername(drvs, username) == FindUserFrom(drvs, username, 1)

\* the vehicle lookup of handleAssignDriver: the first vehicle type (in key
\* order) that has the plate, then the first vehicle with the plate in it
RECURSIVE FindVehicleFrom(_, _, _)
FindVehicleFrom(vts, vehiclePlate, k) ==
    IF k > Len(VehicleTypeKeys) THEN NullVehicle
    ELSE LET hits == SelectSeq(vts[VehicleTypeKeys[k]],
                               LAMBDA v : v.plate = vehiclePlate)
         IN  IF hits # <<>> THEN Head(hits)
             ELSE FindVehicleFrom(vts, vehiclePlate, k + 1)

FindVehicle(vts, vehiclePlate) == FindVehicleFrom(vts, vehiclePlate, 1)

\* b.assignedVehicle?.plate
PlateOf(b) == IF b.assignedVehicle = NullVehicle THEN Null ELSE b.assignedVehicle.plate

----------------------------------------------------------------------------
(* Lifecycle Manager: the state updates of the handlers *)

\* mutant of NewBooking: the fare ignores the vehicle type
NewBooking_SedanFare(resultJson, form) ==
    [confirmationNumber |-> resultJson.confirmationNumber,
     estimatedFare   |-> estimateFare(form.location[1], "Standard Sedan"),
     guestName       |-> form.guestName[1],
     guestPhone      |-> form.guestPhone[1],
     location        |-> form.location[1],
     date            |-> form.date[1],
     time            |-> form.time[1],
     serviceType     |-> form.serviceType,
     vehicleType     |-> form.selectedVehicleType,
     driverName      |-> Null,
     driverPhone     |-> Null,
     assignedVehicle |-> NullVehicle,
     bookingStatus   |-> "confirmed",
     driverStatus    |-> "offline",
     driverPosition  |-> PositionOf(0),
     eta             |-> <<>>,
     paymentStatus   |-> "pending",
     paymentId       |-> Null]

\* the booking handleBooking builds from the text service's result and the form
NewBooking(resultJson, form) ==
    [confirmationNumber |-> resultJson.confirmationNumber,
     estimatedFare   |-> estimateFare(form.location[1], form.selectedVehicleType),
     guestName       |-> form.guestName[1],
     guestPhone      |-> form.guestPhone[1],
     location        |-> form.location[1],
     date            |-> form.date[1],
     time            |-> form.time[1],
     serviceType     |-> form.serviceType,
     vehicleType     |-> form.selectedVehicleType,
     driverName      |-> Null,
     driverPhone     |-> Null,
     assignedVehicle |-> NullVehicle,
     bookingStatus   |-> "confirmed",
     driverStatus    |-> "offline",
     driverPosition  |-> PositionOf(0),
     eta             |-> <<>>,
     paymentStatus   |-> "pending",
     paymentId       |-> Null]

\* mutant of CancelStore: the driverStatus reset is left out
CancelStore_KeepsDriverStatus(bks, confirmationNumber) ==
    [i \in DOMAIN bks |->
        IF bks[i].confirmationNumber = confirmationNumber
        THEN [bks[i] EXCEPT !.bookingStatus = "cancelled",
                            !.driverName = Null,
                            !.driverPhone = Null,
                            !.assignedVehicle = NullVehicle]
        ELSE bks[i]]

\* mutant of CancelStore: the status is toggled, so a second cancel undoes the
\* first
CancelStore_Toggles(bks, confirmationNumber) ==
    [i \in DOMAIN bks |->
        IF bks[i].confirmationNumber = confirmationNumber
        THEN [bks[i] EXCEPT !.bookingStatus = IF @ = "cancelled" THEN "confirmed"
                                              ELSE "cancelled",
                            !.driverName = Null,
                            !.driverPhone = Null,
                            !.assignedVehicle = NullVehicle,
                            !.driverStatus = "offline"]
        ELSE bks[i]]

\* mutant of CancelStore: the booking is looked up by the wrong field, so no
\* booking is updated
CancelStore_WrongKey(bks, confirmationNumber) ==
    [i \in DOMAIN bks |->
        IF bks[i].guestPhone = confirmationNumber
        THEN [bks[i] EXCEPT !.bookingStatus = "cancelled",
                            !.driverName = Null,
                            !.driverPhone = Null,
                            !.assignedVehicle = NullVehicle,
                            !.driverStatus = "offline"]
        ELSE bks[i]]

\* the setBookings updater of handleCancelBooking
CancelStore(bks, confirmationNumber) ==
    [i \in DOMAIN bks |->
        IF bks[i].confirmationNumber = confirmationNumber
        THEN [bks[i] EXCEPT !.bookingStatus = "cancelled",
                            !.driverName = Null,
                            !.driverPhone = Null,
                            !.assignedVehicle = NullVehicle,
                            !.driverStatus = "offline"]
        ELSE bks[i]]

\* the setGuestBookings updater of handleCancelBooking
CancelGuestBookings(gbs, confirmationNumber) ==
    [i \in DOMAIN gbs |->
        IF gbs[i].confirmationNumber = confirmationNumber
        THEN [gbs[i] EXCEPT !.bookingStatus = "cancelled"]
        ELSE gbs[i]]

\* the setSelectedBooking update of handleCancelBooking
CancelSelected(sel, confirmationNumber) ==
    IF sel # <<>> /\ sel[1].confirmationNumber = confirmationNumber
    THEN << [sel[1] EXCEPT !.bookingStatus = "cancelled"] >>
    ELSE sel

\* mutant of updatePaymentStatus: the booking is also put back to confirmed
updatePaymentStatus_ResetsBooking(b, paymentId) ==
    [b EXCEPT !.paymentStatus = "paid", !.paymentId = paymentId,
              !.bookingStatus = "confirmed"]

\* updatePaymentStatus of the payment success handler
updatePaymentStatus(b, paymentId) ==
    [b EXCEPT !.paymentStatus = "paid", !.paymentId = paymentId]

\* mutant of AssignStore: the fare is computed again at assignment, for an SUV
AssignStore_Reprices(bks, drvs, vts, bookingConfirmation, driverName, vehiclePlate) ==
    LET d == FindDriver(drvs, driverName)
        vehicle == FindVehicle(vts, vehiclePlate)
    IN  [i \in DOMAIN bks |->
            IF bks[i].confirmationNumber = bookingConfirmation
            THEN [bks[i] EXCEPT
                    !.driverName = driverName,
                    !.driverPhone = IF d = 0 THEN Null ELSE drvs[d].phone,
                    !.assignedVehicle = vehicle,
                    !.driverStatus = IF d = 0 THEN "offline" ELSE drvs[d].status,
                    !.bookingStatus = "assigned",
                    !.estimatedFare = estimateFare(bks[i].location, "SUV")]
            ELSE bks[i]]

\* the setBookings updater of handleAssignDriver
AssignStore(bks, drvs, vts, bookingConfirmation, driverName, vehiclePlate) ==
    LET d == FindDriver(drvs, driverName)
        vehicle == FindVehicle(vts, vehiclePlate)
    IN  [i \in DOMAIN bks |->
            IF bks[i].confirmationNumber = bookingConfirmation
            THEN [bks[i] EXCEPT
                    !.driverName = driverName,
                    !.driverPhone = IF d = 0 THEN Null ELSE drvs[d].phone,
                    !.assignedVehicle = vehicle,
                    !.driverStatus = IF d = 0 THEN "offline" ELSE drvs[d].status,
                    !.bookingStatus = "assigned"]
            ELSE bks[i]]

----------------------------------------------------------------------------
(* Assignment Service: the validation of AdminBookingItem.handleSave *)

driverIsBooked(bks, booking, driverName) ==
    \E i \in DOMAIN bks :
        /\ bks[i].confirmationNumber # booking.confirmationNumber
        /\ bks[i].driverName = driverName
        /\ bks[i].bookingStatus # "cancelled"
        /\ isTimeOverlapping(booking, bks[i])

vehicleIsBooked(bks, booking, vehiclePlate) ==
    \E i \in DOMAIN bks :
        /\ bks[i].confirmationNumber # booking.confirmationNumber
        /\ PlateOf(bks[i]) = vehiclePlate
        /\ bks[i].bookingStatus # "cancelled"
        /\ isTimeOverlapping(booking, bks[i])

\* toLocaleTimeString('en-GB', hour and minute 2-digit) of a time in minutes:
\* the text HH:MM as the pair <<HH, MM>>
FormatTime(minutes) == << (minutes % 1440) \div 60, minutes % 60 >>

\* getEndTime of the availability memo: '' (<<>>) when the start does not parse
getEndTime(date, time) ==
    LET start == StartOf([date |-> date, time |-> time])
    IN  IF start = NaN THEN <<>> ELSE FormatTime(start + DURATION)

\* driverConflicts.get(driverName) of the availability memo of the item of
\* `booking`: the text `Booked ${time} - ${endTime}` of the first other
\* non-cancelled overlapping booking that holds the driver, <<>> when there is
\* none.  The booking's time is the text of the time input, HH:MM
driverConflicts(bks, booking, driverName) ==
    LET hits == {k \in DOMAIN bks :
                    /\ bks[k].confirmationNumber # booking.confirmationNumber
                    /\ bks[k].bookingStatus # "cancelled"
                    /\ isTimeOverlapping(booking, bks[k])
                    /\ bks[k].driverName # Null
                    /\ bks[k].driverName = driverName}
    IN  IF hits = {} THEN <<>>
        ELSE LET k == CHOOSE x \in hits : \A y \in hits : x <= y
             IN  << "Booked", << bks[k].time \div 60, bks[k].time % 60 >>, "-",
                    getEndTime(bks[k].date, bks[k].time) >>

\* vehicleConflicts.get(vehiclePlate) of AdminBookingItem, for the booking
\* under edit: the label of the first other non-cancelled overlapping booking
\* that holds the plate, <<>> when there is none
vehicleConflicts(bks, booking, vehiclePlate) ==
    LET hits == {k \in DOMAIN bks :
                    /\ bks[k].confirmationNumber # booking.confirmationNumber
                    /\ bks[k].bookingStatus # "cancelled"
                    /\ isTimeOverlapping(booking, bks[k])
                    /\ PlateOf(bks[k]) # Null
                    /\ PlateOf(bks[k]) = vehiclePlate}
    IN  IF hits = {} THEN <<>>
        ELSE LET k == CHOOSE x \in hits : \A y \in hits : x <= y
             IN  << "Booked", << bks[k].time \div 60, bks[k].time % 60 >>, "-",
                    getEndTime(bks[k].date, bks[k].time) >>

\* the option groups of the driver select that list the driver record d for
\* the booking under edit
DriverGroups(bks, booking, d) ==
    LET conflict == driverConflicts(bks, booking, d.name) # <<>>
        isOffline == d.status = "offline"
    IN  {g \in {"Available", "Unavailable (Overlapping)", "Offline"} :
            \/ g = "Available" /\ ~conflict /\ ~isOffline
            \/ g = "Unavailable (Overlapping)" /\ conflict
            \/ g = "Offline" /\ isOffline /\ ~conflict}

\* the option groups of the vehicle select that list the vehicle v for the
\* booking under edit
VehicleGroups(bks, booking, v) ==
    LET conflict == vehicleConflicts(bks, booking, v.plate) # <<>>
    IN  {g \in {"Available", "Unavailable (Overlapping)"} :
            \/ g = "Available" /\ ~conflict
            \/ g = "Unavailable (Overlapping)" /\ conflict}

\* mutant of SaveError: the offline check is left out
SaveError_NoOfflineCheck(bks, drvs, booking, driverName, vehiclePlate) ==
    IF driverName = "" \/ vehiclePlate = "" THEN "select both"
    ELSE IF driverIsBooked(bks, booking, driverName) THEN "driver overlap"
    ELSE IF vehicleIsBooked(bks, booking, vehiclePlate) THEN "vehicle overlap"
    ELSE ""

\* the error handleSave reports for (booking, driver, vehicle), "" when every
\* check passes and it calls handleAssignDriver
SaveError(bks, drvs, booking, driverName, vehiclePlate) ==
    LET d == FindDriver(drvs, driverName)
    IN  IF driverName = "" \/ vehiclePlate = "" THEN "select both"
        ELSE IF d # 0 /\ drvs[d].status = "offline" THEN "driver offline"
        ELSE IF driverIsBooked(bks, booking, driverName) THEN "driver overlap"
        ELSE IF vehicleIsBooked(bks, booking, vehiclePlate) THEN "vehicle overlap"
        ELSE ""

----------------------------------------------------------------------------
(* Tracking Simulator: effects of DriverDashboard and GuestBookingStatus *)

\* driverDetails?.status === 'online' of DriverDashboard
IsOnline(drvs, logged) ==
    /\ logged # <<>>
    /\ FindUsername(drvs, logged[1].username) # 0
    /\ drvs[FindUsername(drvs, logged[1].username)].status = "online"

\* the driverStatus sync effect of DriverDashboard
SyncDriverStatus(bks, driverName, online) ==
    [i \in DOMAIN bks |->
        IF bks[i].driverName = driverName /\ bks[i].driverStatus # "arrived"
        THEN [bks[i] EXCEPT !.driverStatus = IF online THEN "online" ELSE "offline"]
        ELSE bks[i]]

\* what one timer callback writes on a booking
TickBooking(b, elapsed) ==
    LET progress == ProgressOf(elapsed)
    IN  [b EXCEPT !.driverPosition = PositionOf(progress),
                  !.driverStatus = IF progress < SimDuration THEN "online" ELSE "arrived",
                  !.eta = calculateSimulatedETA(progress)]

\* the setBookings updater of the driver view's timer callback
TickStore(bks, confirmationNumber, elapsed) ==
    [i \in DOMAIN bks |->
        IF bks[i].confirmationNumber = confirmationNumber
        THEN TickBooking(bks[i], elapsed)
        ELSE bks[i]]

\* the setGuestBookings updater of the guest view's timer callback: the entry
\* is replaced by the updated copy of the selected booking
TickGuestBookings(gbs, booking, elapsed) ==
    [i \in DOMAIN gbs |->
        IF gbs[i].confirmationNumber = booking.confirmationNumber
        THEN TickBooking(booking, elapsed)
        ELSE gbs[i]]

\* which screen renderContent shows
View(role, tracking, confirmation) ==
    IF confirmation THEN "confirmation"
    ELSE IF role = "admin" THEN "admin"
    ELSE IF role = "driver" THEN "driver"
    ELSE IF tracking THEN "tracking"
    ELSE "form"

\* the table intervalRefs.current and the timers of the window, together
NoTimers == [refs |-> {}, live |-> [cn \in ConfirmationNumbers |-> 0]]

\* mutant of ClearAll: the table is emptied and its timers are left running
ClearAll_KeepsTimers(t) ==
    [refs |-> {}, live |-> t.live]

\* Object.values(intervalRefs.current).forEach(clearInterval);
\* intervalRefs.current = {}
ClearAll(t) ==
    [refs |-> {},
     live |-> [cn \in ConfirmationNumbers |->
                  IF cn \in t.refs THEN t.live[cn] - 1 ELSE t.live[cn]]]

\* intervalRefs.current[cn] = window.setInterval(...)
StartTimer(t, cn) ==
    [refs |-> t.refs \cup {cn}, live |-> [t.live EXCEPT ![cn] = @ + 1]]

\* clearInterval(intervalRefs.current[cn]); delete intervalRefs.current[cn]
StopTimer(t, cn) ==
    IF cn \in t.refs
    THEN [refs |-> t.refs \ {cn}, live |-> [t.live EXCEPT ![cn] = @ - 1]]
    ELSE t

\* driverBookings of DriverDashboard
DriverBookings(bks, logged) ==
    SelectSeq(bks, LAMBDA b : b.driverName = logged[1].name)

RECURSIVE DriverTimersFrom(_, _, _, _)
\* driverBookings.forEach of the interval effect of DriverDashboard, from the
\* k-th booking on
DriverTimersFrom(t, dbs, online, k) ==
    IF k > Len(dbs) THEN t
    ELSE LET cn == dbs[k].confirmationNumber
         IN  DriverTimersFrom(
                 IF online /\ cn \notin t.refs /\ dbs[k].driverStatus # "arrived"
                 THEN StartTimer(t, cn)
                 ELSE IF ~online /\ cn \in t.refs THEN StopTimer(t, cn)
                 ELSE t,
                 dbs, online, k + 1)

\* mutant of DriverTimers: a timer is started for every booking of the driver
\* that has not arrived, in the table already or not
DriverTimers_NoTableCheck(t, bks, drvs, logged) ==
    LET dbs == DriverBookings(bks, logged)
        Started[k \in 0..Len(dbs)] ==
            IF k = 0 THEN t
            ELSE IF IsOnline(drvs, logged) /\ dbs[k].driverStatus # "arrived"
                 THEN StartTimer(Started[k - 1], dbs[k].confirmationNumber)
                 ELSE Started[k - 1]
    IN  Started[Len(dbs)]

\* the table and timers the interval effect of DriverDashboard leaves
DriverTimers(t, bks, drvs, logged) ==
    DriverTimersFrom(t, DriverBookings(bks, logged), IsOnline(drvs, logged), 1)

\* the table and timers the interval effect of GuestBookingStatus leaves
GuestTimers(t, sel) ==
    LET cleared == ClearAll(t)
    IN  IF /\ sel # <<>>
           /\ sel[1].driverName # Null
           /\ sel[1].driverStatus # "arrived"
           /\ sel[1].confirmationNumber \notin cleared.refs
        THEN StartTimer(cleared, sel[1].confirmationNumber)
        ELSE cleared

\* the table and timers once the view of before has run its effect cleanup and
\* the view of now its interval effect
TimersOf(t, before, view, bks, sel, drvs, logged) ==
    LET cleaned == IF before \in {"driver", "tracking"} THEN ClearAll(t) ELSE t
    IN  IF view = "driver" THEN DriverTimers(cleaned, bks, drvs, logged)
        ELSE IF view = "tracking" THEN GuestTimers(cleaned, sel)
        ELSE cleaned

\* the interval effects run after every state update of the mounted view, from
\* the table and timers t the handler or callback leaves
EffectsFrom(t) ==
    LET after == TimersOf(t, View(currentUserRole, isTracking, isConfirmationVisible),
                          View(currentUserRole', isTracking', isConfirmationVisible'),
                          bookings', selectedBooking', drivers', loggedInDriver')
    IN  /\ intervalRefs' = after.refs
        /\ windowTimers' = after.live

\* every handler and callback counts as one step
CountStep ==
    /\ steps < MaxSteps
    /\ steps' = steps + 1

RunEffectsFrom(t) ==
    /\ CountStep
    /\ EffectsFrom(t)

\* the table and timers of the current state
Timers == [refs |-> intervalRefs, live |-> windowTimers]

RunEffects == RunEffectsFrom(Timers)

\* the table and timers a timer callback leaves: at progress 1 it clears its own
\* entry of the table
AfterTick(t, cn, elapsed) ==
    IF ProgressOf(elapsed) >= SimDuration THEN StopTimer(t, cn) ELSE t

CurrentView == View(currentUserRole, isTracking, isConfirmationVisible)

----------------------------------------------------------------------------
(* Initial state: the useState initial values of App *)

Init ==
    /\ bookings = <<>>
    /\ drivers = INITIAL_DRIVERS
    /\ vehicleTypes = INITIAL_VEHICLE_TYPES
    /\ lastBooking = <<>>
    /\ guestBookings = <<>>
    /\ selectedBooking = <<>>
    /\ currentUserRole = "guest"
    /\ isTracking = FALSE
    /\ isConfirmationVisible = FALSE
    /\ isEditingAssignment = Null
    /\ loggedInDriver = <<>>
    /\ assignmentError = ""
    /\ formError = ""
    /\ intervalRefs = {}
    /\ windowTimers = NoTimers.live
    /\ watches = {}
    /\ checkout = <<>>
    /\ steps = 0

----------------------------------------------------------------------------
(* Guest form and confirmation screen *)

\* mutant of handleBooking: the required fields are not checked, an empty field
\* is stored as it is ('' for a text, an unparsable date or time)
handleBooking_NoFieldCheck(form, result) ==
    /\ CurrentView = "form"
    /\ Len(bookings) < MaxBookings
    /\ IF ~result.ok
       THEN /\ formError' = "An unexpected error occurred. Please try again later."
            /\ UNCHANGED <<bookings, lastBooking, isConfirmationVisible>>
       ELSE /\ formError' = ""
            /\ LET asStored == [k \in DOMAIN form |->
                                  IF form[k] # Empty THEN form[k]
                                  ELSE IF k \in {"date", "time"} THEN <<NaN>>
                                  ELSE IF k = "location" THEN << <<>> >>
                                  ELSE <<"">>]
                   newBooking == NewBooking(result, asStored)
               IN  /\ bookings' = Append(bookings, newBooking)
                   /\ lastBooking' = <<newBooking>>
            /\ isConfirmationVisible' = TRUE
    /\ UNCHANGED <<drivers, vehicleTypes, guestBookings, selectedBooking,
                   currentUserRole, isTracking, isEditingAssignment,
                   loggedInDriver, assignmentError>>
    /\ UNCHANGED <<watches, checkout>>
    /\ RunEffects

\* handleBooking for the submitted form and the outcome of the text service's
\* call: a form with a required field empty is refused before the call, a
\* failure of the call is caught, and otherwise the booking is stored
handleBooking(form, result) ==
    /\ CurrentView = "form"
    /\ Len(bookings) < MaxBookings
    /\ IF \E k \in RequiredFields : form[k] = Empty
       THEN /\ formError' = "Please fill out all required fields."
            /\ UNCHANGED <<bookings, lastBooking, isConfirmationVisible>>
       ELSE IF ~result.ok
       THEN /\ formError' = "An unexpected error occurred. Please try again later."
            /\ UNCHANGED <<bookings, lastBooking, isConfirmationVisible>>
       ELSE /\ formError' = ""
            /\ LET newBooking == NewBooking(result, form)
               IN  /\ bookings' = Append(bookings, newBooking)
                   /\ lastBooking' = <<newBooking>>
            /\ isConfirmationVisible' = TRUE
    /\ UNCHANGED <<drivers, vehicleTypes, guestBookings, selectedBooking,
                   currentUserRole, isTracking, isEditingAssignment,
                   loggedInDriver, assignmentError>>
    /\ UNCHANGED <<watches, checkout>>
    /\ RunEffects

\* the "New Booking" button of the confirmation screen
NewBookingClick ==
    /\ CurrentView = "confirmation"
    /\ isConfirmationVisible' = FALSE
    /\ UNCHANGED <<bookings, drivers, vehicleTypes, lastBooking, guestBookings,
                   selectedBooking, currentUserRole, isTracking,
                   isEditingAssignment, loggedInDriver, assignmentError,
                   formError>>
    /\ UNCHANGED <<watches, checkout>>
    /\ RunEffects

\* mutant of PayStore: every stored booking is marked, whatever its number
PayStore_EveryBooking(bks, confirmationNumber, paymentId) ==
    [i \in DOMAIN bks |-> updatePaymentStatus(bks[i], paymentId)]

\* the setBookings updater of the payment success handler
PayStore(bks, confirmationNumber, paymentId) ==
    [i \in DOMAIN bks |->
        IF bks[i].confirmationNumber = confirmationNumber
        THEN updatePaymentStatus(bks[i], paymentId)
        ELSE bks[i]]

\* the setLastBooking / setSelectedBooking updater of the payment success
\* handler: prev => prev ? updatePaymentStatus(prev) : null
PayCopy(copy, paymentId) ==
    IF copy # <<>> THEN << updatePaymentStatus(copy[1], paymentId) >> ELSE <<>>

\* the payment success handler's update of lastBooking or selectedBooking: the
\* test reads `atOpen`, the value of the state in the render in which
\* handlePayment ran, and the updater is applied to the copy that is there now
PayCopyIf(copy, atOpen, booking, paymentId) ==
    IF atOpen # <<>> /\ atOpen[1].confirmationNumber = booking.confirmationNumber
    THEN PayCopy(copy, paymentId)
    ELSE copy

\* the payment success handler (options.handler of handlePayment) for `booking`,
\* a copy shown by the confirmation screen or the guest status view;
\* `lastAtOpen` and `selectedAtOpen` are lastBooking and selectedBooking as the
\* handler captured them
PaymentHandler(booking, lastAtOpen, selectedAtOpen, paymentId) ==
    /\ bookings' = PayStore(bookings, booking.confirmationNumber, paymentId)
    /\ lastBooking' = PayCopyIf(lastBooking, lastAtOpen, booking, paymentId)
    /\ selectedBooking' =
          PayCopyIf(selectedBooking, selectedAtOpen, booking, paymentId)
    /\ guestBookings' = [i \in DOMAIN guestBookings |->
                      IF guestBookings[i].confirmationNumber = booking.confirmationNumber
                      THEN updatePaymentStatus(guestBookings[i], paymentId)
                      ELSE guestBookings[i]]
    /\ UNCHANGED <<drivers, vehicleTypes, currentUserRole, isTracking,
                   isConfirmationVisible, isEditingAssignment, loggedInDriver,
                   assignmentError, formError>>
    /\ UNCHANGED watches

\* handlePayment for `booking` with the payment made at once: the success
\* handler runs in the state in which the checkout was opened
PaymentSuccess(booking, paymentId) ==
    /\ checkout = <<>>
    /\ PaymentHandler(booking, lastBooking, selectedBooking, paymentId)
    /\ UNCHANGED checkout
    /\ RunEffects

\* handlePayment for `booking`: the checkout is opened, its success handler
\* holds the booking, lastBooking and selectedBooking of this render
handlePayment(booking) ==
    /\ checkout = <<>>
    /\ checkout' = << [booking |-> booking, lastBooking |-> lastBooking,
                       selectedBooking |-> selectedBooking] >>
    /\ UNCHANGED <<bookings, drivers, vehicleTypes, lastBooking, guestBookings,
                   selectedBooking, currentUserRole, isTracking,
                   isConfirmationVisible, isEditingAssignment, loggedInDriver,
                   assignmentError, formError>>
    /\ UNCHANGED watches
    /\ RunEffects

\* "Pay Now" of the confirmation screen
OpenCheckoutLast ==
    /\ CurrentView = "confirmation"
    /\ lastBooking # <<>>
    /\ lastBooking[1].paymentStatus = "pending"
    /\ handlePayment(lastBooking[1])

\* the success handler of the open checkout is called
PaymentCallback(paymentId) ==
    /\ checkout # <<>>
    /\ PaymentHandler(checkout[1].booking, checkout[1].lastBooking,
                      checkout[1].selectedBooking, paymentId)
    /\ checkout' = <<>>
    /\ RunEffects

\* modal.ondismiss of the open checkout: a notification, no state is written
DismissCheckout ==
    /\ checkout # <<>>
    /\ checkout' = <<>>
    /\ UNCHANGED <<bookings, drivers, vehicleTypes, lastBooking, guestBookings,
                   selectedBooking, currentUserRole, isTracking,
                   isConfirmationVisible, isEditingAssignment, loggedInDriver,
                   assignmentError, formError>>
    /\ UNCHANGED watches
    /\ RunEffects

\* "Pay Now" of the confirmation screen, paid
PayLastBooking(paymentId) ==
    /\ CurrentView = "confirmation"
    /\ lastBooking # <<>>
    /\ lastBooking[1].paymentStatus = "pending"
    /\ PaymentSuccess(lastBooking[1], paymentId)

----------------------------------------------------------------------------
(* Header buttons, login and logout *)

\* the "Track Your Booking" button of the header
OpenTracking ==
    /\ currentUserRole = "guest"
    /\ ~isTracking
    /\ isTracking' = TRUE
    /\ UNCHANGED <<bookings, drivers, vehicleTypes, lastBooking, guestBookings,
                   selectedBooking, currentUserRole, isConfirmationVisible,
                   isEditingAssignment, loggedInDriver, assignmentError,
                   formError>>
    /\ UNCHANGED <<watches, checkout>>
    /\ RunEffects

\* the login icon of the header, as a guest: leaves the status view
OpenLoginPopover ==
    /\ currentUserRole = "guest"
    /\ isTracking
    /\ isTracking' = FALSE
    /\ UNCHANGED <<bookings, drivers, vehicleTypes, lastBooking, guestBookings,
                   selectedBooking, currentUserRole, isConfirmationVisible,
                   isEditingAssignment, loggedInDriver, assignmentError,
                   formError>>
    /\ UNCHANGED <<watches, checkout>>
    /\ RunEffects

\* handleLogin with the administrator's credentials
LoginAdmin ==
    /\ CurrentView = "form"
    /\ currentUserRole' = "admin"
    /\ UNCHANGED <<bookings, drivers, vehicleTypes, lastBooking, guestBookings,
                   selectedBooking, isTracking, isConfirmationVisible,
                   isEditingAssignment, loggedInDriver, assignmentError,
                   formError>>
    /\ UNCHANGED <<watches, checkout>>
    /\ RunEffects

\* handleLogin with the credentials of drivers[i]; DriverDashboard mounts and
\* its driverStatus sync effect runs
LoginDriver(i) ==
    /\ CurrentView = "form"
    /\ i \in DOMAIN drivers
    /\ loggedInDriver' = << drivers[i] >>
    /\ currentUserRole' = "driver"
    /\ bookings' = SyncDriverStatus(bookings, drivers[i].name,
                                    IsOnline(drivers, << drivers[i] >>))
    /\ UNCHANGED <<drivers, vehicleTypes, lastBooking, guestBookings,
                   selectedBooking, isTracking, isConfirmationVisible,
                   isEditingAssignment, assignmentError, formError>>
    /\ UNCHANGED <<watches, checkout>>
    /\ RunEffects

\* handleLogout: the logout buttons and "Back to Booking" of the status view
handleLogout ==
    /\ CurrentView \in {"admin", "driver", "tracking"}
    /\ currentUserRole' = "guest"
    /\ loggedInDriver' = <<>>
    /\ isTracking' = FALSE
    /\ guestBookings' = <<>>
    /\ selectedBooking' = <<>>
    /\ isConfirmationVisible' = FALSE
    /\ lastBooking' = <<>>
    /\ isEditingAssignment' = Null
    /\ assignmentError' = ""
    /\ formError' = ""
    /\ UNCHANGED <<bookings, drivers, vehicleTypes>>
    /\ UNCHANGED <<watches, checkout>>
    /\ RunEffects

----------------------------------------------------------------------------
(* Guest status view *)

\* sort((a, b) => start(b) - start(a)): stable, latest first
RECURSIVE SortLatestFirst(_)
SortLatestFirst(s) ==
    IF s = <<>> THEN <<>>
    ELSE LET front == SortLatestFirst(SubSeq(s, 1, Len(s) - 1))
             x == s[Len(s)]
             k == Cardinality({i \in DOMAIN front : StartOf(front[i]) >= StartOf(x)})
         IN  SubSeq(front, 1, k) \o <<x>> \o SubSeq(front, k + 1, Len(front))

handleTrackBooking(trackingPhone) ==
    /\ CurrentView = "tracking"
    /\ guestBookings = <<>>
    /\ guestBookings' = SortLatestFirst(
            SelectSeq(bookings, LAMBDA b : b.guestPhone = trackingPhone))
    /\ selectedBooking' = <<>>
    /\ UNCHANGED <<bookings, drivers, vehicleTypes, lastBooking, currentUserRole,
                   isTracking, isConfirmationVisible, isEditingAssignment,
                   loggedInDriver, assignmentError, formError>>
    /\ UNCHANGED <<watches, checkout>>
    /\ RunEffects

\* a click on an item of the guest's booking list
SelectBooking(i) ==
    /\ CurrentView = "tracking"
    /\ selectedBooking = <<>>
    /\ i \in DOMAIN guestBookings
    /\ selectedBooking' = << guestBookings[i] >>
    /\ UNCHANGED <<bookings, drivers, vehicleTypes, lastBooking, guestBookings,
                   currentUserRole, isTracking, isConfirmationVisible,
                   isEditingAssignment, loggedInDriver, assignmentError,
                   formError>>
    /\ UNCHANGED <<watches, checkout>>
    /\ RunEffects

\* "View All Bookings"
ViewAllBookings ==
    /\ CurrentView = "tracking"
    /\ selectedBooking # <<>>
    /\ selectedBooking' = <<>>
    /\ UNCHANGED <<bookings, drivers, vehicleTypes, lastBooking, guestBookings,
                   currentUserRole, isTracking, isConfirmationVisible,
                   isEditingAssignment, loggedInDriver, assignmentError,
                   formError>>
    /\ UNCHANGED <<watches, checkout>>
    /\ RunEffects

\* handleCancelBooking
handleCancelBooking(confirmationNumber) ==
    /\ bookings' = CancelStore(bookings, confirmationNumber)
    /\ guestBookings' = CancelGuestBookings(guestBookings, confirmationNumber)
    /\ selectedBooking' = CancelSelected(selectedBooking, confirmationNumber)
    /\ UNCHANGED <<drivers, vehicleTypes, lastBooking, currentUserRole, isTracking,
                   isConfirmationVisible, isEditingAssignment, loggedInDriver,
                   assignmentError, formError>>
    /\ UNCHANGED <<watches, checkout>>
    /\ RunEffects

\* "Cancel Booking" of the guest status view
GuestCancel ==
    /\ CurrentView = "tracking"
    /\ selectedBooking # <<>>
    /\ selectedBooking[1].bookingStatus # "cancelled"
    /\ handleCancelBooking(selectedBooking[1].confirmationNumber)

\* "Pay Now" of the guest status view, paid
PaySelectedBooking(paymentId) ==
    /\ CurrentView = "tracking"
    /\ selectedBooking # <<>>
    /\ selectedBooking[1].paymentStatus = "pending"
    /\ selectedBooking[1].bookingStatus # "cancelled"
    /\ PaymentSuccess(selectedBooking[1], paymentId)

\* "Pay Now" of the guest status view
OpenCheckoutSelected ==
    /\ CurrentView = "tracking"
    /\ selectedBooking # <<>>
    /\ selectedBooking[1].paymentStatus = "pending"
    /\ selectedBooking[1].bookingStatus # "cancelled"
    /\ handlePayment(selectedBooking[1])

\* the timer callback of GuestBookingStatus and the effects that follow it
GuestCallback(elapsed) ==
    /\ CurrentView = "tracking"
    /\ selectedBooking # <<>>
    /\ windowTimers[selectedBooking[1].confirmationNumber] > 0
    /\ guestBookings' = TickGuestBookings(guestBookings, selectedBooking[1], elapsed)
    /\ selectedBooking' = << TickBooking(selectedBooking[1], elapsed) >>
    /\ UNCHANGED <<bookings, drivers, vehicleTypes, lastBooking, currentUserRole,
                   isTracking, isConfirmationVisible, isEditingAssignment,
                   loggedInDriver, assignmentError, formError>>
    /\ UNCHANGED <<watches, checkout>>
    /\ EffectsFrom(AfterTick(Timers, selectedBooking[1].confirmationNumber, elapsed))

GuestTick(elapsed) ==
    /\ GuestCallback(elapsed)
    /\ CountStep

----------------------------------------------------------------------------
(* Admin dashboard *)

\* the "Assign" / "Re-assign" button of a booking item
StartEdit(i) ==
    /\ CurrentView = "admin"
    /\ i \in DOMAIN bookings
    /\ bookings[i].bookingStatus # "cancelled"
    /\ isEditingAssignment # bookings[i].confirmationNumber
    /\ isEditingAssignment' = bookings[i].confirmationNumber
    /\ assignmentError' = ""
    /\ UNCHANGED <<bookings, drivers, vehicleTypes, lastBooking, guestBookings,
                   selectedBooking, currentUserRole, isTracking,
                   isConfirmationVisible, loggedInDriver, formError>>
    /\ UNCHANGED <<watches, checkout>>
    /\ RunEffects

\* the "Cancel" button of the assignment form
CancelEdit ==
    /\ CurrentView = "admin"
    /\ isEditingAssignment # Null
    /\ isEditingAssignment' = Null
    /\ assignmentError' = ""
    /\ UNCHANGED <<bookings, drivers, vehicleTypes, lastBooking, guestBookings,
                   selectedBooking, currentUserRole, isTracking,
                   isConfirmationVisible, loggedInDriver, formError>>
    /\ UNCHANGED <<watches, checkout>>
    /\ RunEffects

\* mutant of handleSave: the driver is written on the booking before the checks
\* run, and stays there when a check fails
handleSave_WritesBeforeChecks(i, driverName, vehiclePlate) ==
    /\ CurrentView = "admin"
    /\ i \in DOMAIN bookings
    /\ bookings[i].bookingStatus # "cancelled"
    /\ isEditingAssignment = bookings[i].confirmationNumber
    /\ LET error == SaveError(bookings, drivers, bookings[i], driverName, vehiclePlate)
       IN  /\ assignmentError' = error
           /\ IF error # ""
              THEN /\ bookings' = [bookings EXCEPT ![i].driverName = driverName]
                   /\ UNCHANGED isEditingAssignment
              ELSE /\ bookings' = AssignStore(bookings, drivers, vehicleTypes,
                                              bookings[i].confirmationNumber,
                                              driverName, vehiclePlate)
                   /\ isEditingAssignment' = Null
    /\ UNCHANGED <<drivers, vehicleTypes, lastBooking, guestBookings,
                   selectedBooking, currentUserRole, isTracking,
                   isConfirmationVisible, loggedInDriver, formError>>
    /\ UNCHANGED <<watches, checkout>>
    /\ RunEffects

\* AdminBookingItem.handleSave for the item of bookings[i] with the assignment
\* form holding (driverName, vehiclePlate): the handler reads the form state and
\* checks it itself; when every check passes it calls handleAssignDriver
handleSave(i, driverName, vehiclePlate) ==
    /\ CurrentView = "admin"
    /\ i \in DOMAIN bookings
    /\ bookings[i].bookingStatus # "cancelled"
    /\ isEditingAssignment = bookings[i].confirmationNumber
    /\ LET error == SaveError(bookings, drivers, bookings[i], driverName, vehiclePlate)
       IN  /\ assignmentError' = error
           /\ IF error # ""
              THEN UNCHANGED <<bookings, isEditingAssignment>>
              ELSE /\ bookings' = AssignStore(bookings, drivers, vehicleTypes,
                                              bookings[i].confirmationNumber,
                                              driverName, vehiclePlate)
                   /\ isEditingAssignment' = Null
    /\ UNCHANGED <<drivers, vehicleTypes, lastBooking, guestBookings,
                   selectedBooking, currentUserRole, isTracking,
                   isConfirmationVisible, loggedInDriver, formError>>
    /\ UNCHANGED <<watches, checkout>>
    /\ RunEffects

\* the "Cancel" button of a booking item that is not under edit
AdminCancel(i) ==
    /\ CurrentView = "admin"
    /\ i \in DOMAIN bookings
    /\ bookings[i].bookingStatus # "cancelled"
    /\ isEditingAssignment # bookings[i].confirmationNumber
    /\ handleCancelBooking(bookings[i].confirmationNumber)

handleRemoveDriver(username) ==
    /\ CurrentView = "admin"
    /\ FindUsername(drivers, username) # 0
    /\ drivers' = SelectSeq(drivers, LAMBDA d : d.username # username)
    /\ UNCHANGED <<bookings, vehicleTypes, lastBooking, guestBookings,
                   selectedBooking, currentUserRole, isTracking,
                   isConfirmationVisible, isEditingAssignment, loggedInDriver,
                   assignmentError, formError>>
    /\ UNCHANGED <<watches, checkout>>
    /\ RunEffects

handleRemoveVehicle(type, plate) ==
    /\ CurrentView = "admin"
    /\ \E k \in DOMAIN vehicleTypes[type] : vehicleTypes[type][k].plate = plate
    /\ vehicleTypes' = [vehicleTypes EXCEPT
            ![type] = SelectSeq(vehicleTypes[type], LAMBDA v : v.plate # plate)]
    /\ UNCHANGED <<bookings, drivers, lastBooking, guestBookings,
                   selectedBooking, currentUserRole, isTracking,
                   isConfirmationVisible, isEditingAssignment, loggedInDriver,
                   assignmentError, formError>>
    /\ UNCHANGED <<watches, checkout>>
    /\ RunEffects

\* handleAddDriver with the name and username fields of the form ('' when
\* empty; phone and password filled in)
handleAddDriver(newDriverName, newDriverUsername) ==
    /\ CurrentView = "admin"
    /\ IF newDriverName = "" \/ newDriverUsername = ""
       THEN UNCHANGED drivers
       ELSE IF FindUsername(drivers, newDriverUsername) # 0
       THEN UNCHANGED drivers
       ELSE /\ Len(drivers) < MaxDrivers
            /\ drivers' = Append(drivers,
                  [name |-> newDriverName, phone |-> "9000000000",
                   username |-> newDriverUsername, status |-> "online",
                   position |-> Null])
    /\ UNCHANGED <<bookings, vehicleTypes, lastBooking, guestBookings,
                   selectedBooking, currentUserRole, isTracking,
                   isConfirmationVisible, isEditingAssignment, loggedInDriver,
                   assignmentError, formError>>
    /\ UNCHANGED <<watches, checkout>>
    /\ RunEffects

\* handleAddVehicle for a vehicle type with the plate field of the form ('' when
\* empty; model filled in)
handleAddVehicle(type, newVehiclePlate) ==
    /\ CurrentView = "admin"
    /\ IF newVehiclePlate = ""
       THEN UNCHANGED vehicleTypes
       ELSE /\ Len(vehicleTypes[type]) < MaxVehicles
            /\ vehicleTypes' = [vehicleTypes EXCEPT ![type] =
                  Append(@, [plate |-> newVehiclePlate, model |-> "Maruti Dzire"])]
    /\ UNCHANGED <<bookings, drivers, lastBooking, guestBookings,
                   selectedBooking, currentUserRole, isTracking,
                   isConfirmationVisible, isEditingAssignment, loggedInDriver,
                   assignmentError, formError>>
    /\ UNCHANGED <<watches, checkout>>
    /\ RunEffects

----------------------------------------------------------------------------
(* Driver dashboard *)

\* the position a geolocation fix carries
Fix == "gps"

\* mutant of SetDriverStatus: a position is written, and is never taken away
SetDriverStatus_KeepsPosition(drvs, username, status, position) ==
    [i \in DOMAIN drvs |->
        IF drvs[i].username = username
        THEN [drvs[i] EXCEPT !.status = status,
                             !.position = IF position = Null THEN @ ELSE position]
        ELSE drvs[i]]

\* the status and position the toggle and the geolocation callbacks write on
\* the record of the driver with this username
SetDriverStatus(drvs, username, status, position) ==
    [i \in DOMAIN drvs |->
        IF drvs[i].username = username
        THEN [drvs[i] EXCEPT !.status = status, !.position = position]
        ELSE drvs[i]]

\* the driverStatus sync effect, which runs when DriverDashboard is the mounted
\* view, with the registry drvs
SyncMounted(bks, drvs) ==
    IF CurrentView = "driver"
    THEN SyncDriverStatus(bks, loggedInDriver[1].name, IsOnline(drvs, loggedInDriver))
    ELSE bks

\* handleToggleOnlineStatus while online: go offline; the watch is not cleared
\* (watchIdRef belongs to a DriverDashboard that was mounted again since the
\* watch was registered, and is null); the sync effect and the interval effect
\* follow
ToggleOffline ==
    /\ CurrentView = "driver"
    /\ IsOnline(drivers, loggedInDriver)
    /\ drivers' = SetDriverStatus(drivers, loggedInDriver[1].username, "offline", Null)
    /\ bookings' = SyncDriverStatus(bookings, loggedInDriver[1].name, FALSE)
    /\ UNCHANGED <<vehicleTypes, lastBooking, guestBookings, selectedBooking,
                   currentUserRole, isTracking, isConfirmationVisible,
                   isEditingAssignment, loggedInDriver, assignmentError,
                   formError>>
    /\ UNCHANGED <<watches, checkout>>
    /\ RunEffects

\* handleToggleOnlineStatus while offline, and the first position callback of
\* watchPosition, which sets the driver online
ToggleOnline ==
    /\ CurrentView = "driver"
    /\ ~IsOnline(drivers, loggedInDriver)
    /\ watches' = watches \cup {loggedInDriver[1].username}
    /\ UNCHANGED checkout
    /\ drivers' = SetDriverStatus(drivers, loggedInDriver[1].username, "online", Fix)
    /\ bookings' = SyncDriverStatus(bookings, loggedInDriver[1].name,
                                    IsOnline(drivers', loggedInDriver))
    /\ UNCHANGED <<vehicleTypes, lastBooking, guestBookings, selectedBooking,
                   currentUserRole, isTracking, isConfirmationVisible,
                   isEditingAssignment, loggedInDriver, assignmentError,
                   formError>>
    /\ RunEffects

\* handleToggleOnlineStatus while offline, and the error callback of
\* watchPosition (permission denied, no fix): the driver is forced offline
ToggleOnlineDenied ==
    /\ CurrentView = "driver"
    /\ ~IsOnline(drivers, loggedInDriver)
    /\ watches' = watches \cup {loggedInDriver[1].username}
    /\ UNCHANGED checkout
    /\ drivers' = SetDriverStatus(drivers, loggedInDriver[1].username, "offline", Null)
    /\ bookings' = SyncDriverStatus(bookings, loggedInDriver[1].name,
                                    IsOnline(drivers', loggedInDriver))
    /\ UNCHANGED <<vehicleTypes, lastBooking, guestBookings, selectedBooking,
                   currentUserRole, isTracking, isConfirmationVisible,
                   isEditingAssignment, loggedInDriver, assignmentError,
                   formError>>
    /\ RunEffects

\* a later position callback of a watch of the driver with this username
PositionCallback(username) ==
    /\ username \in watches
    /\ drivers' = SetDriverStatus(drivers, username, "online", Fix)
    /\ bookings' = SyncMounted(bookings, drivers')
    /\ UNCHANGED <<vehicleTypes, lastBooking, guestBookings, selectedBooking,
                   currentUserRole, isTracking, isConfirmationVisible,
                   isEditingAssignment, loggedInDriver, assignmentError,
                   formError, watches, checkout>>
    /\ RunEffects

\* a later error callback of a watch of the driver with this username
GeoError(username) ==
    /\ username \in watches
    /\ drivers' = SetDriverStatus(drivers, username, "offline", Null)
    /\ bookings' = SyncMounted(bookings, drivers')
    /\ UNCHANGED <<vehicleTypes, lastBooking, guestBookings, selectedBooking,
                   currentUserRole, isTracking, isConfirmationVisible,
                   isEditingAssignment, loggedInDriver, assignmentError,
                   formError, watches, checkout>>
    /\ RunEffects

\* the timer callback of DriverDashboard for one booking and the effects that
\* follow it
DriverCallback(confirmationNumber, elapsed) ==
    /\ CurrentView = "driver"
    /\ confirmationNumber \in ConfirmationNumbers
    /\ windowTimers[confirmationNumber] > 0
    /\ bookings' = TickStore(bookings, confirmationNumber, elapsed)
    /\ UNCHANGED <<drivers, vehicleTypes, lastBooking, guestBookings,
                   selectedBooking, currentUserRole, isTracking,
                   isConfirmationVisible, isEditingAssignment, loggedInDriver,
                   assignmentError, formError>>
    /\ UNCHANGED <<watches, checkout>>
    /\ EffectsFrom(AfterTick(Timers, confirmationNumber, elapsed))

DriverTick(confirmationNumber, elapsed) ==
    /\ DriverCallback(confirmationNumber, elapsed)
    /\ CountStep

----------------------------------------------------------------------------

Next ==
    \/ \E form \in ValidForms \cup InvalidForms, result \in ServiceResults :
          handleBooking(form, result)
    \/ NewBookingClick
    \/ \E pid \in PaymentIds : PayLastBooking(pid)
    \/ OpenTracking
    \/ OpenLoginPopover
    \/ LoginAdmin
    \/ \E i \in 1..Len(INITIAL_DRIVERS) : LoginDriver(i)
    \/ handleLogout
    \/ \E p \in GuestPhones : handleTrackBooking(p)
    \/ \E i \in 1..MaxBookings : SelectBooking(i)
    \/ ViewAllBookings
    \/ GuestCancel
    \/ \E pid \in PaymentIds : PaySelectedBooking(pid)
    \/ \E e \in ElapsedChoices : GuestTick(e)
    \/ \E i \in 1..MaxBookings : StartEdit(i)
    \/ CancelEdit
    \/ \E i \in 1..MaxBookings, d \in DriverChoices, v \in VehicleChoices :
          handleSave(i, d, v)
    \/ \E i \in 1..MaxBookings : AdminCancel(i)
    \/ \E i \in 1..Len(INITIAL_DRIVERS) : handleRemoveDriver(INITIAL_DRIVERS[i].username)
    \/ \E type \in DOMAIN INITIAL_VEHICLE_TYPES, plate \in VehicleChoices :
          handleRemoveVehicle(type, plate)
    \/ ToggleOffline
    \/ ToggleOnline
    \/ \E cn \in ConfirmationNumbers, e \in ElapsedChoices : DriverTick(cn, e)

Spec == Init /\ [][Next]_vars

----------------------------------------------------------------------------
(* The fare estimator on all kinds of locations: the guest form and the     *)
(* confirmation screen                                                       *)

\* pickup locations as the guest types them, a list of words
FareLocations ==
    { <<"Jabalpur", "Airport">>,
      <<"AIRPORT", "road">>,
      <<"Airport", "Jabalpur", "Railway", "Station">>,
      <<"Jabalpur", "Railway", "Station">>,
      <<"Madan", "Mahal", "Railway", "Station">>,
      <<"Jabalpur", "Station">>,
      <<"near", "Madan", "Mahal", "Station">>,
      <<"Railway", "Station">>,
      <<"City", "Mall">> }

FareForms ==
    { [guestName |-> <<"guest">>, guestPhone |-> <<"guest-phone">>,
       location |-> <<l>>, date |-> <<1>>, time |-> <<600>>,
       selectedVehicleType |-> t, serviceType |-> "pickup"] :
         l \in FareLocations, t \in {"Standard Sedan", "SUV"} }

FareNext ==
    \/ \E form \in FareForms, result \in ServiceResults : handleBooking(form, result)
    \/ NewBookingClick

FareSpec == Init /\ [][FareNext]_vars

----------------------------------------------------------------------------
(* The overlap detector on all kinds of dates and times: the admin dashboard *)
(* over a store of two bookings, the first one assigned                      *)

\* dates and times of the two bookings: two days, 00:30, 10:00, 11:00, 11:30 and
\* 23:30, and a date and a time that do not parse
OverlapDates == CalendarDays \cup {NaN}
OverlapTimes == {30, 600, 660, 690, 1410, NaN}

\* the form a booking with this date and time was submitted with
FormAt(date, time) ==
    [guestName |-> <<"guest">>, guestPhone |-> <<"guest-phone">>,
     location |-> <<RequestAt(time).location>>, date |-> <<date>>,
     time |-> <<time>>,
     selectedVehicleType |-> RequestAt(time).selectedVehicleType,
     serviceType |-> RequestAt(time).serviceType]

OverlapInit ==
    /\ \E dateA \in OverlapDates, timeA \in OverlapTimes,
          dateB \in OverlapDates, timeB \in OverlapTimes :
          bookings = AssignStore(
              << NewBooking([ok |-> TRUE, confirmationNumber |-> "CN1"],
                            FormAt(dateA, timeA)),
                 NewBooking([ok |-> TRUE, confirmationNumber |-> "CN2"],
                            FormAt(dateB, timeB)) >>,
              INITIAL_DRIVERS, INITIAL_VEHICLE_TYPES,
              "CN1", "Ravi Kumar", "MP20TA7001")
    /\ drivers = INITIAL_DRIVERS
    /\ vehicleTypes = INITIAL_VEHICLE_TYPES
    /\ lastBooking = <<>>
    /\ guestBookings = <<>>
    /\ selectedBooking = <<>>
    /\ currentUserRole = "admin"
    /\ isTracking = FALSE
    /\ isConfirmationVisible = FALSE
    /\ isEditingAssignment = Null
    /\ loggedInDriver = <<>>
    /\ assignmentError = ""
    /\ formError = ""
    /\ intervalRefs = {}
    /\ windowTimers = NoTimers.live
    /\ watches = {}
    /\ checkout = <<>>
    /\ steps = MaxSteps - OverlapSteps

OverlapNext ==
    \/ \E i \in 1..MaxBookings : StartEdit(i)
    \/ CancelEdit
    \/ \E i \in 1..MaxBookings, d \in DriverChoices, v \in VehicleChoices :
          handleSave(i, d, v)
    \/ \E i \in 1..MaxBookings : AdminCancel(i)

OverlapSpec == OverlapInit /\ [][OverlapNext]_vars

----------------------------------------------------------------------------
(* The tracking simulation of a store with an assigned booking: the driver   *)
(* view, the guest status view and the admin dashboard                       *)

\* milliseconds between the start of a timer and its callback: on time, one second
\* late, or held back for the whole simulation
TrackElapsed == {1000, 2000, SimDuration}

\* the plate of the vehicle the admin dashboard offers for a vehicle type
PlateFor(vehicleType) == INITIAL_VEHICLE_TYPES[vehicleType][1].plate

\* two bookings under different confirmation numbers, the first one assigned to
\* an online driver; the administrator has logged out
TrackInit ==
    /\ \E timeA \in Times, timeB \in Times, d \in DOMAIN INITIAL_DRIVERS :
          bookings = AssignStore(
              << NewBooking([ok |-> TRUE, confirmationNumber |-> "CN1"],
                            FormAt(1, timeA)),
                 NewBooking([ok |-> TRUE, confirmationNumber |-> "CN2"],
                            FormAt(1, timeB)) >>,
              INITIAL_DRIVERS, INITIAL_VEHICLE_TYPES,
              "CN1", INITIAL_DRIVERS[d].name,
              PlateFor(RequestAt(timeA).selectedVehicleType))
    /\ drivers = INITIAL_DRIVERS
    /\ vehicleTypes = INITIAL_VEHICLE_TYPES
    /\ lastBooking = <<>>
    /\ guestBookings = <<>>
    /\ selectedBooking = <<>>
    /\ currentUserRole = "guest"
    /\ isTracking = FALSE
    /\ isConfirmationVisible = FALSE
    /\ isEditingAssignment = Null
    /\ loggedInDriver = <<>>
    /\ assignmentError = ""
    /\ formError = ""
    /\ intervalRefs = {}
    /\ windowTimers = NoTimers.live
    /\ watches = {}
    /\ checkout = <<>>
    /\ steps = MaxSteps - TrackSteps

TrackNext ==
    \/ OpenTracking
    \/ OpenLoginPopover
    \/ LoginAdmin
    \/ \E i \in 1..Len(INITIAL_DRIVERS) : LoginDriver(i)
    \/ handleLogout
    \/ \E p \in GuestPhones : handleTrackBooking(p)
    \/ \E i \in 1..MaxBookings : SelectBooking(i)
    \/ ViewAllBookings
    \/ GuestCancel
    \/ \E e \in TrackElapsed : GuestTick(e)
    \/ \E i \in 1..MaxBookings : StartEdit(i)
    \/ \E i \in 1..MaxBookings, d \in DriverChoices, v \in VehicleChoices :
          handleSave(i, d, v)
    \/ \E i \in 1..MaxBookings : AdminCancel(i)
    \/ ToggleOffline
    \/ ToggleOnline
    \/ \E cn \in ConfirmationNumbers, e \in TrackElapsed : DriverTick(cn, e)

TrackSpec == TrackInit /\ [][TrackNext]_vars

----------------------------------------------------------------------------
(* The admin dashboard with its registries: adding and removing drivers and  *)
(* vehicles, and the assignment form                                         *)

\* what the name, username and plate fields of the add forms may hold
NewDriverNames == {"", "Sunita Sharma", "Meena Joshi"}
NewDriverUsernames == {"", "sunita", "meena"}
NewVehiclePlates == {"", "MP20TA7001", "MP20TB5000"}

\* what the selects of the assignment form may hold
RegistryDriverChoices == DriverChoices \cup NewDriverNames
RegistryVehicleChoices == VehicleChoices \cup NewVehiclePlates

\* the store of TrackInit in the admin dashboard; the second driver may have
\* gone offline in the driver view before
RegistryInit ==
    /\ \E timeA \in Times, timeB \in Times, d \in DOMAIN INITIAL_DRIVERS,
          status \in {"online", "offline"} :
          /\ drivers = SetDriverStatus(INITIAL_DRIVERS, INITIAL_DRIVERS[2].username,
                                       status, Null)
          /\ bookings = SyncDriverStatus(
                AssignStore(
                  << NewBooking([ok |-> TRUE, confirmationNumber |-> "CN1"],
                                FormAt(1, timeA)),
                     NewBooking([ok |-> TRUE, confirmationNumber |-> "CN2"],
                                FormAt(1, timeB)) >>,
                  INITIAL_DRIVERS, INITIAL_VEHICLE_TYPES,
                  "CN1", INITIAL_DRIVERS[d].name,
                  PlateFor(RequestAt(timeA).selectedVehicleType)),
                INITIAL_DRIVERS[2].name, status = "online")
    /\ vehicleTypes = INITIAL_VEHICLE_TYPES
    /\ lastBooking = <<>>
    /\ guestBookings = <<>>
    /\ selectedBooking = <<>>
    /\ currentUserRole = "admin"
    /\ isTracking = FALSE
    /\ isConfirmationVisible = FALSE
    /\ isEditingAssignment = Null
    /\ loggedInDriver = <<>>
    /\ assignmentError = ""
    /\ formError = ""
    /\ intervalRefs = {}
    /\ windowTimers = NoTimers.live
    /\ watches = {}
    /\ checkout = <<>>
    /\ steps = MaxSteps - RegistrySteps

RegistryNext ==
    \/ \E n \in NewDriverNames, u \in NewDriverUsernames : handleAddDriver(n, u)
    \/ \E u \in NewDriverUsernames \cup {"ravi"} : handleRemoveDriver(u)
    \/ \E type \in DOMAIN INITIAL_VEHICLE_TYPES, plate \in NewVehiclePlates :
          handleAddVehicle(type, plate)
    \/ \E type \in DOMAIN INITIAL_VEHICLE_TYPES, plate \in RegistryVehicleChoices :
          handleRemoveVehicle(type, plate)
    \/ \E i \in 1..MaxBookings : StartEdit(i)
    \/ CancelEdit
    \/ \E i \in 1..MaxBookings, d \in RegistryDriverChoices,
          v \in RegistryVehicleChoices : handleSave(i, d, v)
    \/ \E i \in 1..MaxBookings : AdminCancel(i)

RegistrySpec == RegistryInit /\ [][RegistryNext]_vars

----------------------------------------------------------------------------
(* The driver view with its geolocation watch: going online and offline,    *)
(* position and error callbacks, logging in and out                          *)

\* the store of TrackInit, before any driver has logged in
DriverInit ==
    /\ \E timeA \in Times, timeB \in Times, d \in DOMAIN INITIAL_DRIVERS :
          bookings = AssignStore(
              << NewBooking([ok |-> TRUE, confirmationNumber |-> "CN1"],
                            FormAt(1, timeA)),
                 NewBooking([ok |-> TRUE, confirmationNumber |-> "CN2"],
                            FormAt(1, timeB)) >>,
              INITIAL_DRIVERS, INITIAL_VEHICLE_TYPES,
              "CN1", INITIAL_DRIVERS[d].name,
              PlateFor(RequestAt(timeA).selectedVehicleType))
    /\ drivers = INITIAL_DRIVERS
    /\ vehicleTypes = INITIAL_VEHICLE_TYPES
    /\ lastBooking = <<>>
    /\ guestBookings = <<>>
    /\ selectedBooking = <<>>
    /\ currentUserRole = "guest"
    /\ isTracking = FALSE
    /\ isConfirmationVisible = FALSE
    /\ isEditingAssignment = Null
    /\ loggedInDriver = <<>>
    /\ assignmentError = ""
    /\ formError = ""
    /\ intervalRefs = {}
    /\ windowTimers = NoTimers.live
    /\ watches = {}
    /\ checkout = <<>>
    /\ steps = MaxSteps - DriverSteps

DriverNext ==
    \/ \E i \in 1..Len(INITIAL_DRIVERS) : LoginDriver(i)
    \/ handleLogout
    \/ ToggleOffline
    \/ ToggleOnline
    \/ ToggleOnlineDenied
    \/ \E i \in 1..Len(INITIAL_DRIVERS) : PositionCallback(INITIAL_DRIVERS[i].username)
    \/ \E i \in 1..Len(INITIAL_DRIVERS) : GeoError(INITIAL_DRIVERS[i].username)

DriverSpec == DriverInit /\ [][DriverNext]_vars


----------------------------------------------------------------------------
(* Payments of a guest: the checkout is opened, the guest goes on using the  *)
(* page, and the success handler is called later                             *)

\* the guest has made one booking, or two under different confirmation
\* numbers, and looks at the confirmation screen of the latest
PayInit ==
    /\ \E n \in 1..MaxBookings, timeA \in Times, timeB \in Times :
          /\ bookings = SubSeq(
                << NewBooking([ok |-> TRUE, confirmationNumber |-> "CN1"],
                              FormAt(1, timeA)),
                   NewBooking([ok |-> TRUE, confirmationNumber |-> "CN2"],
                              FormAt(2, timeB)) >>, 1, n)
          /\ lastBooking = << bookings[n] >>
    /\ drivers = INITIAL_DRIVERS
    /\ vehicleTypes = INITIAL_VEHICLE_TYPES
    /\ guestBookings = <<>>
    /\ selectedBooking = <<>>
    /\ currentUserRole = "guest"
    /\ isTracking = FALSE
    /\ isConfirmationVisible = TRUE
    /\ isEditingAssignment = Null
    /\ loggedInDriver = <<>>
    /\ assignmentError = ""
    /\ formError = ""
    /\ intervalRefs = {}
    /\ windowTimers = NoTimers.live
    /\ watches = {}
    /\ checkout = <<>>
    /\ steps = MaxSteps - PaySteps

PayNext ==
    \/ \E t \in Times :
          handleBooking(FormAt(2, t), [ok |-> TRUE, confirmationNumber |-> "CN2"])
    \/ NewBookingClick
    \/ OpenTracking
    \/ \E p \in GuestPhones : handleTrackBooking(p)
    \/ \E i \in 1..MaxBookings : SelectBooking(i)
    \/ ViewAllBookings
    \/ GuestCancel
    \/ OpenCheckoutLast
    \/ OpenCheckoutSelected
    \/ \E id \in PaymentIds : PaymentCallback(id)
    \/ DismissCheckout

PaySpec == PayInit /\ [][PayNext]_vars
----------------------------------------------------------------------------
(* The tracking timers left to run: a mounted driver view or guest status    *)
(* view in which only the timer callbacks happen, as often as they fire      *)

\* the store of TrackInit, seen from the driver view after the login of one of
\* the drivers or from the guest status view after the choice of a booking
LiveInit ==
    /\ \E timeA \in Times, timeB \in Times, d \in DOMAIN INITIAL_DRIVERS :
          LET store == AssignStore(
                  << NewBooking([ok |-> TRUE, confirmationNumber |-> "CN1"],
                                FormAt(1, timeA)),
                     NewBooking([ok |-> TRUE, confirmationNumber |-> "CN2"],
                                FormAt(1, timeB)) >>,
                  INITIAL_DRIVERS, INITIAL_VEHICLE_TYPES,
                  "CN1", INITIAL_DRIVERS[d].name,
                  PlateFor(RequestAt(timeA).selectedVehicleType))
          IN  \/ \E i \in DOMAIN INITIAL_DRIVERS :
                    /\ bookings = SyncDriverStatus(store, INITIAL_DRIVERS[i].name, TRUE)
                    /\ currentUserRole = "driver"
                    /\ loggedInDriver = << INITIAL_DRIVERS[i] >>
                    /\ isTracking = FALSE
                    /\ guestBookings = <<>>
                    /\ selectedBooking = <<>>
              \/ \E i \in 1..MaxBookings :
                    /\ bookings = store
                    /\ currentUserRole = "guest"
                    /\ loggedInDriver = <<>>
                    /\ isTracking = TRUE
                    /\ guestBookings = SortLatestFirst(store)
                    /\ selectedBooking = << SortLatestFirst(store)[i] >>
    /\ drivers = INITIAL_DRIVERS
    /\ vehicleTypes = INITIAL_VEHICLE_TYPES
    /\ lastBooking = <<>>
    /\ isConfirmationVisible = FALSE
    /\ isEditingAssignment = Null
    /\ assignmentError = ""
    /\ formError = ""
    /\ LET started == TimersOf(NoTimers, "form", CurrentView, bookings,
                               selectedBooking, drivers, loggedInDriver)
       IN  /\ intervalRefs = started.refs
           /\ windowTimers = started.live
    /\ watches = {}
    /\ checkout = <<>>
    /\ steps = 0

\* a timer callback of the driver view, steps not counted
LiveDriverTick(confirmationNumber, elapsed) ==
    /\ DriverCallback(confirmationNumber, elapsed)
    /\ UNCHANGED steps

\* a timer callback of the guest status view, steps not counted
LiveGuestTick(elapsed) ==
    /\ GuestCallback(elapsed)
    /\ UNCHANGED steps

LiveNext ==
    \/ \E cn \in ConfirmationNumbers, e \in TrackElapsed : LiveDriverTick(cn, e)
    \/ \E e \in TrackElapsed : LiveGuestTick(e)

\* window.setInterval: a timer that stays running keeps calling its callback
LiveSpec ==
    /\ LiveInit
    /\ [][LiveNext]_vars
    /\ \A cn \in ConfirmationNumbers :
          WF_vars(\E e \in TrackElapsed : LiveDriverTick(cn, e))
    /\ WF_vars(\E e \in TrackElapsed : LiveGuestTick(e))

----------------------------------------------------------------------------
(* The estimated time of arrival a timer callback writes, for callbacks at   *)
(* all kinds of moments of the simulation                                    *)

\* milliseconds between the start of a timer and its callback
EtaElapsed ==
    {1, 1000, 2000, 6000, 10000, 14000, 17999, 18000, 18001, 18666, 18667,
     19000, 19001, 19999, 20000, 25000}

EtaNext ==
    \/ \E cn \in ConfirmationNumbers, e \in EtaElapsed : LiveDriverTick(cn, e)
    \/ \E e \in EtaElapsed : LiveGuestTick(e)

EtaSpec == LiveInit /\ [][EtaNext]_vars

----------------------------------------------------------------------------
(* Claims *)

Active(b) == b.bookingStatus # "cancelled"

\* C1: no two distinct non-cancelled bookings of the store have the same
\* driverName and overlapping 90-minute windows.
C1_NoDriverDoubleBooking ==
    \A i, j \in DOMAIN bookings :
        (i # j /\ Active(bookings[i]) /\ Active(bookings[j])
         /\ bookings[i].driverName # Null
         /\ bookings[i].driverName = bookings[j].driverName)
        => ~isTimeOverlapping(bookings[i], bookings[j])

\* C2: no two distinct non-cancelled bookings of the store have an assigned
\* vehicle with the same plate and overlapping 90-minute windows.
C2_NoVehicleDoubleBooking ==
    \A i, j \in DOMAIN bookings :
        (i # j /\ Active(bookings[i]) /\ Active(bookings[j])
         /\ bookings[i].assignedVehicle # NullVehicle
         /\ PlateOf(bookings[i]) = PlateOf(bookings[j]))
        => ~isTimeOverlapping(bookings[i], bookings[j])

\* C3: a handleSave that reports an error (no driver or vehicle selected, driver
\* offline, driver overlap, vehicle overlap) leaves the whole booking store, and
\* so every field of the target booking, as it was.
C3_AssignAllOrNothing ==
    [][\A i \in 1..MaxBookings, d \in DriverChoices, v \in VehicleChoices :
          (handleSave(i, d, v) /\ assignmentError' # "") => bookings' = bookings]_vars

\* C3 witness: an assign of a booking was rejected for vehicle overlap, the last
\* of the checks, while another booking holds that vehicle.
C3_Witness ==
    /\ assignmentError = "vehicle overlap"
    /\ \E i, j \in DOMAIN bookings :
          /\ bookings[i].confirmationNumber = isEditingAssignment
          /\ bookings[i].bookingStatus = "confirmed"
          /\ bookings[i].driverName = Null
          /\ bookings[j].bookingStatus = "assigned"
          /\ isTimeOverlapping(bookings[i], bookings[j])

\* C4: in every step, a stored booking that is cancelled stays cancelled, and
\* one that is assigned does not become confirmed.
C4_StatusTransitions ==
    [][\A i \in DOMAIN bookings :
          /\ bookings[i].bookingStatus = "cancelled"
                => bookings'[i].bookingStatus = "cancelled"
          /\ bookings[i].bookingStatus = "assigned"
                => bookings'[i].bookingStatus # "confirmed"]_vars

\* C5: every cancelled booking of the store has driverName, driverPhone and
\* assignedVehicle null and driverStatus offline.
C5_CancelledIsCleared ==
    \A i \in DOMAIN bookings :
        bookings[i].bookingStatus = "cancelled"
        => /\ bookings[i].driverName = Null
           /\ bookings[i].driverPhone = Null
           /\ bookings[i].assignedVehicle = NullVehicle
           /\ bookings[i].driverStatus = "offline"

\* C5 witness: a cancelled booking is in the store while the driver dashboard is
\* mounted and the logged-in driver has toggled offline, so the driverStatus
\* sync effect has run over the store.
C5_Witness ==
    /\ CurrentView = "driver"
    /\ ~IsOnline(drivers, loggedInDriver)
    /\ \E i \in DOMAIN bookings : bookings[i].bookingStatus = "cancelled"

\* C6: in every reachable state and for every confirmation number, the updates
\* of handleCancelBooking applied twice give the same store, guestBookings and
\* selectedBooking as applied once.
C6_CancelIdempotent ==
    \A cn \in ConfirmationNumbers :
        LET store1 == CancelStore(bookings, cn)
            guest1 == CancelGuestBookings(guestBookings, cn)
            sel1   == CancelSelected(selectedBooking, cn)
        IN  /\ CancelStore(store1, cn) = store1
            /\ CancelGuestBookings(guest1, cn) = guest1
            /\ CancelSelected(sel1, cn) = sel1

\* C6 witness: a cancel has been applied once, to a booking that held a driver
\* in the store and whose copy is selected in the guest view.
C6_Witness ==
    /\ selectedBooking # <<>>
    /\ selectedBooking[1].bookingStatus = "cancelled"
    /\ selectedBooking[1].driverName # Null
    /\ \E i \in DOMAIN bookings :
          /\ bookings[i].confirmationNumber = selectedBooking[1].confirmationNumber
          /\ bookings[i].bookingStatus = "cancelled"

\* every held copy of the booking shows it cancelled
CopiesShowCancelled(cn) ==
    /\ \A i \in DOMAIN guestBookings :
          guestBookings[i].confirmationNumber = cn
          => guestBookings[i].bookingStatus = "cancelled"
    /\ (selectedBooking # <<>> /\ selectedBooking[1].confirmationNumber = cn)
          => selectedBooking[1].bookingStatus = "cancelled"
    /\ (lastBooking # <<>> /\ lastBooking[1].confirmationNumber = cn)
          => lastBooking[1].bookingStatus = "cancelled"

\* C7: after handleCancelBooking(c), every held copy of booking c (guestBookings,
\* selectedBooking, lastBooking) shows bookingStatus = cancelled.
C7_CancelPropagates ==
    [][\A cn \in ConfirmationNumbers :
          handleCancelBooking(cn) => CopiesShowCancelled(cn)']_vars

\* the case of C8 for bookings[a] (holding driver d and vehicle v) and
\* bookings[b], with the store bks as it is after the cancel of bookings[a]:
\* d is online and no booking other than these two holds d or v in a window
\* that overlaps that of bookings[b]
C8_Case(a, b, d, v, bks) ==
    /\ a # b
    /\ Active(bookings[a]) /\ Active(bookings[b])
    /\ bookings[a].confirmationNumber # bookings[b].confirmationNumber
    /\ bookings[a].driverName = d
    /\ PlateOf(bookings[a]) = v
    /\ isTimeOverlapping(bookings[a], bookings[b])
    /\ FindDriver(drivers, d) # 0
    /\ drivers[FindDriver(drivers, d)].status = "online"
    /\ \A k \in DOMAIN bks :
          (k # a /\ k # b /\ Active(bks[k]) /\ isTimeOverlapping(bks[b], bks[k]))
          => (bks[k].driverName # d /\ PlateOf(bks[k]) # v)

C9_OfflineDriverRejected ==
    [][\A i \in 1..MaxBookings, d \in DriverChoices, v \in VehicleChoices :
          (/\ handleSave(i, d, v)
           /\ FindDriver(drivers, d) # 0
           /\ drivers[FindDriver(drivers, d)].status = "offline")
          => (assignmentError' # "" /\ bookings' = bookings)]_vars

\* C9 witness: an assign of an unassigned booking was rejected because the
\* driver is offline; the booking is still confirmed with no driver or vehicle.
C9_Witness ==
    /\ assignmentError = "driver offline"
    /\ \E i \in DOMAIN bookings :
          /\ bookings[i].confirmationNumber = isEditingAssignment
          /\ bookings[i].bookingStatus = "confirmed"
          /\ bookings[i].driverName = Null
          /\ bookings[i].assignedVehicle = NullVehicle

\* C10: a handleSave whose driver name resolves to no driver of the registry, or
\* whose plate resolves to no vehicle of any type, reports an error and leaves
\* the booking store as it was.
C10_UnknownReferenceRejected ==
    [][\A i \in 1..MaxBookings, d \in DriverChoices, v \in VehicleChoices :
          (/\ handleSave(i, d, v)
           /\ \/ FindDriver(drivers, d) = 0
              \/ FindVehicle(vehicleTypes, v) = NullVehicle)
          => (assignmentError' # "" /\ bookings' = bookings)]_vars

\* handleSave(i, d, v) passed every check and committed
SaveCommitted(i, d, v) == handleSave(i, d, v) /\ assignmentError' = ""

\* C11: a handleSave of (D, V) on booking c that passes every check leaves, in
\* that one step, on booking c: driverName = D, driverPhone = the phone of D's
\* record in the registry, assignedVehicle = the registry's vehicle with plate
\* V, driverStatus = the status of D's record, bookingStatus = assigned.
C11_AssignSetsFields ==
    [][\A i \in 1..MaxBookings, d \in DriverChoices, v \in VehicleChoices :
          SaveCommitted(i, d, v)
          => /\ FindDriver(drivers, d) # 0
             /\ FindVehicle(vehicleTypes, v) # NullVehicle
             /\ bookings'[i].driverName = d
             /\ bookings'[i].driverPhone = drivers[FindDriver(drivers, d)].phone
             /\ bookings'[i].assignedVehicle.plate = v
             /\ bookings'[i].assignedVehicle = FindVehicle(vehicleTypes, v)
             /\ bookings'[i].driverStatus = drivers[FindDriver(drivers, d)].status
             /\ bookings'[i].bookingStatus = "assigned"]_vars

\* some booking of the store other than bookings[i] is non-cancelled, overlaps
\* bookings[i] and holds driver d or the vehicle with plate v
OtherHolds(i, d, v) ==
    \E k \in DOMAIN bookings :
        /\ k # i
        /\ Active(bookings[k])
        /\ isTimeOverlapping(bookings[i], bookings[k])
        /\ bookings[k].driverName = d \/ PlateOf(bookings[k]) = v

\* C12: a handleSave on a booking that is already assigned, naming its own
\* driver and/or vehicle, with the driver online, is accepted when no other
\* non-cancelled overlapping booking holds that driver or vehicle, and is
\* rejected (store unchanged) when another one does.
C12_ReassignExcludesSelf ==
    [][\A i \in 1..MaxBookings, d \in DriverChoices \ {""}, v \in VehicleChoices \ {""} :
          (/\ handleSave(i, d, v)
           /\ bookings[i].bookingStatus = "assigned"
           /\ bookings[i].driverName = d \/ PlateOf(bookings[i]) = v
           /\ FindDriver(drivers, d) # 0
           /\ drivers[FindDriver(drivers, d)].status = "online")
          => IF OtherHolds(i, d, v)
             THEN assignmentError' # "" /\ bookings' = bookings
             ELSE assignmentError' = ""]_vars

\* bookings[j] is a non-cancelled booking other than bookings[i] that holds
\* driver d and starts less than 90 minutes from bookings[i] on the same date
DriverBusyNear(i, j, d) ==
    /\ j \in DOMAIN bookings
    /\ j # i
    /\ Active(bookings[j])
    /\ bookings[j].driverName = d
    /\ bookings[j].date = bookings[i].date
    /\ bookings[j].time - bookings[i].time < 90
    /\ bookings[i].time - bookings[j].time < 90

\* the window of booking b as the conflict text gives it: start and start + 90
\* minutes, both as <<HH, MM>>
WindowText(b) ==
    << "Booked", << b.time \div 60, b.time % 60 >>, "-",
       << ((b.time + 90) \div 60) % 24, (b.time + 90) % 60 >> >>

\* C13: when a non-cancelled booking holds driver D and handleSave names D for
\* another booking that starts less than 90 minutes from it on the same date,
\* handleSave reports an error, the store is unchanged, and the conflict text
\* shown for D on the form names the window (start to start + 90 min) of such a
\* booking.
C13_ConflictNamesWindow ==
    [][\A i \in 1..MaxBookings, d \in DriverChoices \ {""}, v \in VehicleChoices :
          (handleSave(i, d, v) /\ \E j \in DOMAIN bookings : DriverBusyNear(i, j, d))
          => /\ assignmentError' # ""
             /\ bookings' = bookings
             /\ \E j \in DOMAIN bookings :
                   /\ DriverBusyNear(i, j, d)
                   /\ driverConflicts(bookings, bookings[i], d) = WindowText(bookings[j])]_vars

C15_PaidIdNotOverwritten ==
    [][\A i \in DOMAIN bookings :
          bookings[i].paymentStatus = "paid"
          => bookings'[i].paymentId = bookings[i].paymentId]_vars

\* the payment fields of a booking, and its status and assignment fields
PaymentFields(b) == << b.paymentStatus, b.paymentId >>
LifecycleFields(b) ==
    << b.bookingStatus, b.driverName, b.driverPhone, b.assignedVehicle,
       b.driverStatus >>

\* C16: in every step and for every stored booking: a paid booking stays paid;
\* a step that changes the payment fields (the payment success handler) leaves
\* bookingStatus and the assignment fields as they were; and a step that changes
\* bookingStatus or an assignment field (assign, cancel, the driver's toggle, a
\* tracking tick) leaves paymentStatus and paymentId as they were.
C16_PaymentOrthogonal ==
    [][\A i \in DOMAIN bookings :
          /\ bookings[i].paymentStatus = "paid" => bookings'[i].paymentStatus = "paid"
          /\ \/ PaymentFields(bookings'[i]) = PaymentFields(bookings[i])
             \/ LifecycleFields(bookings'[i]) = LifecycleFields(bookings[i])
          /\ ((\E j \in 1..MaxBookings, d \in DriverChoices, v \in VehicleChoices :
                   handleSave(j, d, v))
              \/ (\E cn \in ConfirmationNumbers : handleCancelBooking(cn))
              \/ ToggleOffline \/ ToggleOnline
              \/ (\E cn \in ConfirmationNumbers, e \in ElapsedChoices : DriverTick(cn, e))
              \/ (\E e \in ElapsedChoices : GuestTick(e)))
             => PaymentFields(bookings'[i]) = PaymentFields(bookings[i])]_vars

\* C16 witness: a stored booking is paid and has been assigned and tracked to
\* arrival, so the payment handler, an assign and ticks have all run on it.
C16_Witness ==
    \E i \in DOMAIN bookings :
        /\ bookings[i].paymentStatus = "paid"
        /\ bookings[i].bookingStatus = "assigned"
        /\ bookings[i].driverStatus = "arrived"

\* C17: no two bookings of the store have the same confirmationNumber.
C17_UniqueConfirmationNumbers ==
    \A i, j \in DOMAIN bookings :
        i # j => bookings[i].confirmationNumber # bookings[j].confirmationNumber

\* handleBooking stored a booking for the form and the service's result
Created(form, result) ==
    /\ handleBooking(form, result)
    /\ \A k \in RequiredFields : form[k] # Empty
    /\ result.ok

\* C18: a handleBooking that succeeds appends exactly one booking to the store,
\* with driverName, driverPhone and assignedVehicle null, bookingStatus
\* confirmed, driverStatus offline, paymentStatus pending and estimatedFare the
\* fare of the form's location and vehicle type, and leaves every booking that
\* was in the store as it was.
C18_CreateSeedsBooking ==
    [][\A form \in ValidForms \cup InvalidForms, result \in ServiceResults :
          Created(form, result)
          => /\ Len(bookings') = Len(bookings) + 1
             /\ SubSeq(bookings', 1, Len(bookings)) = bookings
             /\ LET b == bookings'[Len(bookings')]
                IN  /\ b.driverName = Null
                    /\ b.driverPhone = Null
                    /\ b.assignedVehicle = NullVehicle
                    /\ b.bookingStatus = "confirmed"
                    /\ b.driverStatus = "offline"
                    /\ b.paymentStatus = "pending"
                    /\ b.location = form.location[1]
                    /\ b.vehicleType = form.selectedVehicleType
                    /\ b.estimatedFare =
                          estimateFare(form.location[1], form.selectedVehicleType)]_vars

\* C18 witness: a booking for an SUV has just been created (the confirmation
\* screen shows it) in a store that already held an assigned booking.
C18_Witness ==
    /\ isConfirmationVisible
    /\ Len(bookings) = 2
    /\ lastBooking = << bookings[2] >>
    /\ bookings[2].vehicleType = "SUV"
    /\ bookings[2].bookingStatus = "confirmed"
    /\ bookings[1].bookingStatus = "assigned"
    /\ bookings[1].confirmationNumber # bookings[2].confirmationNumber

\* C19: a handleBooking whose form has guestName, guestPhone, location, date or
\* time empty reports the validation error and leaves the booking store as it
\* was.
C19_CreateRequiresFields ==
    [][\A form \in ValidForms \cup InvalidForms, result \in ServiceResults :
          (/\ handleBooking(form, result)
           /\ \/ form.guestName = Empty
              \/ form.guestPhone = Empty
              \/ form.location = Empty
              \/ form.date = Empty
              \/ form.time = Empty)
          => /\ formError' = "Please fill out all required fields."
             /\ bookings' = bookings]_vars

\* C19 witness: a form with an empty field has been refused while the store
\* holds a booking.
C19_Witness ==
    /\ formError = "Please fill out all required fields."
    /\ bookings # <<>>
    /\ CurrentView = "form"

\* C20: a handleBooking with every required field filled in whose call of the
\* text service fails still appends a confirmed booking to the store.
C20_CreateSurvivesServiceFailure ==
    [][\A form \in ValidForms, result \in ServiceResults :
          (handleBooking(form, result) /\ ~result.ok)
          => /\ Len(bookings') = Len(bookings) + 1
             /\ bookings'[Len(bookings')].bookingStatus = "confirmed"
             /\ bookings'[Len(bookings')].confirmationNumber # Null]_vars

\* the date and the time of the booking both parse; its start in minutes
Parses(b) == b.date # NaN /\ b.time # NaN
Minutes(b) == 1440 * b.date + b.time
Apart(a, b) == IF Minutes(a) >= Minutes(b) THEN Minutes(a) - Minutes(b)
               ELSE Minutes(b) - Minutes(a)

\* C21: for every pair of stored bookings whose date and time parse,
\* isTimeOverlapping is true exactly when startA < startB + 90 min and
\* startA + 90 min > startB, that is when the starts are less than 90 minutes
\* apart; starts exactly 90 minutes apart do not conflict.
C21_OverlapIsWindowIntersection ==
    \A i, j \in DOMAIN bookings :
        (Parses(bookings[i]) /\ Parses(bookings[j]))
        => /\ isTimeOverlapping(bookings[i], bookings[j])
                <=> (/\ Minutes(bookings[i]) < Minutes(bookings[j]) + 90
                     /\ Minutes(bookings[i]) + 90 > Minutes(bookings[j]))
           /\ isTimeOverlapping(bookings[i], bookings[j])
                <=> Apart(bookings[i], bookings[j]) < 90

\* C21 witness: two bookings exactly 90 minutes apart both hold the same
\* driver, the second assign having passed the overlap check.
C21_Witness ==
    /\ Len(bookings) = 2
    /\ Parses(bookings[1]) /\ Parses(bookings[2])
    /\ Apart(bookings[1], bookings[2]) = 90
    /\ Active(bookings[1]) /\ Active(bookings[2])
    /\ bookings[1].driverName = "Ravi Kumar"
    /\ bookings[2].driverName = "Ravi Kumar"

\* C22: for every pair of stored bookings, parsing or not,
\* isTimeOverlapping(A, B) = isTimeOverlapping(B, A).
C22_OverlapSymmetric ==
    \A i, j \in DOMAIN bookings :
        isTimeOverlapping(bookings[i], bookings[j])
            = isTimeOverlapping(bookings[j], bookings[i])

\* C22 witness: the second booking starts 60 minutes before the first, across
\* midnight, and its assign to the first one's driver was rejected.
C22_Witness ==
    /\ Len(bookings) = 2
    /\ Parses(bookings[1]) /\ Parses(bookings[2])
    /\ Minutes(bookings[1]) - Minutes(bookings[2]) = 60
    /\ bookings[1].date # bookings[2].date
    /\ bookings[1].driverName = "Ravi Kumar"
    /\ isEditingAssignment = bookings[2].confirmationNumber
    /\ assignmentError = "driver overlap"

\* C23: when the date or time of either booking of a pair does not parse,
\* isTimeOverlapping reports no conflict, and a handleSave on a booking whose
\* date or time does not parse is not rejected for driver or vehicle overlap.
C23_MalformedTimeFailsOpen ==
    [][/\ \A i, j \in DOMAIN bookings :
             (~Parses(bookings[i]) \/ ~Parses(bookings[j]))
             => ~isTimeOverlapping(bookings[i], bookings[j])
       /\ \A i \in 1..MaxBookings, d \in DriverChoices, v \in VehicleChoices :
             (/\ handleSave(i, d, v)
              /\ \/ ~Parses(bookings[i])
                 \/ \A k \in DOMAIN bookings : k # i => ~Parses(bookings[k]))
             => assignmentError' \notin {"driver overlap", "vehicle overlap"}]_vars

\* C23 witness: a booking whose time does not parse was assigned the driver and
\* the vehicle that the other non-cancelled booking holds.
C23_Witness ==
    /\ Len(bookings) = 2
    /\ ~Parses(bookings[2])
    /\ Parses(bookings[1])
    /\ Active(bookings[1]) /\ Active(bookings[2])
    /\ bookings[1].driverName = "Ravi Kumar"
    /\ bookings[2].driverName = "Ravi Kumar"
    /\ PlateOf(bookings[2]) = PlateOf(bookings[1])
    /\ bookings[2].bookingStatus = "assigned"

\* the base fare the rule gives for each location of FareLocations: 500 with
\* "airport" in it (a station phrase or not), 250 with one of the four station
\* phrases, 500 otherwise
BaseFareByRule(location) ==
    CASE location = <<"Jabalpur", "Airport">> -> 500
      [] location = <<"AIRPORT", "road">> -> 500
      [] location = <<"Airport", "Jabalpur", "Railway", "Station">> -> 500
      [] location = <<"Jabalpur", "Railway", "Station">> -> 250
      [] location = <<"Madan", "Mahal", "Railway", "Station">> -> 250
      [] location = <<"Jabalpur", "Station">> -> 250
      [] location = <<"near", "Madan", "Mahal", "Station">> -> 250
      [] OTHER -> 500

\* base x 1.5 for SUV, x 1.18, to the nearest integer
FareByRule(location, vehicleType) ==
    LET base == BaseFareByRule(location)
    IN  CASE base = 500 /\ vehicleType # "SUV" -> 590
          [] base = 500 /\ vehicleType = "SUV" -> 885
          [] base = 250 /\ vehicleType # "SUV" -> 295
          [] OTHER -> 443

\* C24: the fare stored with every booking is the amount the rule gives for its
\* location and vehicle type (airport 500 first, station phrase 250, otherwise
\* 500; x 1.5 for SUV; x 1.18; rounded), the same amount at every call for the
\* same location and vehicle type.
C24_FareByRule ==
    /\ \A i \in DOMAIN bookings :
          /\ bookings[i].estimatedFare
                = FareByRule(bookings[i].location, bookings[i].vehicleType)
          /\ estimateFare(bookings[i].location, bookings[i].vehicleType)
                = bookings[i].estimatedFare
    /\ \A i, j \in DOMAIN bookings :
          (/\ bookings[i].location = bookings[j].location
           /\ bookings[i].vehicleType = bookings[j].vehicleType)
          => bookings[i].estimatedFare = bookings[j].estimatedFare

\* C24 witness: the store holds a booking from a location that has both
\* "airport" and a station phrase, at the SUV airport fare, and one from a
\* station at the SUV station fare.
C24_Witness ==
    \E i, j \in DOMAIN bookings :
        /\ bookings[i].location = <<"Airport", "Jabalpur", "Railway", "Station">>
        /\ bookings[i].vehicleType = "SUV"
        /\ bookings[i].estimatedFare = 885
        /\ bookings[j].location = <<"near", "Madan", "Mahal", "Station">>
        /\ bookings[j].vehicleType = "SUV"
        /\ bookings[j].estimatedFare = 443

\* the request facts of a booking
RequestFacts(b) ==
    <<b.confirmationNumber, b.guestName, b.guestPhone, b.location, b.date,
      b.time, b.serviceType, b.vehicleType, b.estimatedFare>>

\* C25: every booking of the store stays in its place with the same
\* confirmationNumber, guestName, guestPhone, location, date, time, serviceType,
\* vehicleType and estimatedFare through every step.
C25_RequestFactsImmutable ==
    [][\A i \in DOMAIN bookings :
          /\ i \in DOMAIN bookings'
          /\ RequestFacts(bookings'[i]) = RequestFacts(bookings[i])]_vars

\* C25 witness: a booking that has been paid, assigned and moved by a tracking
\* tick still carries the fare of its location and vehicle type.
C25_Witness ==
    \E i \in DOMAIN bookings :
        /\ bookings[i].paymentStatus = "paid"
        /\ bookings[i].driverName # Null
        /\ bookings[i].driverPosition # PositionOf(0)
        /\ bookings[i].vehicleType = "Standard Sedan"
        /\ bookings[i].estimatedFare = 590

\* C29: for every confirmation number at most one tracking timer is running,
\* and a running timer is the one the table records under that number.
C29_OneTaskPerBooking ==
    \A cn \in ConfirmationNumbers :
        /\ windowTimers[cn] <= 1
        /\ windowTimers[cn] > 0 => cn \in intervalRefs

\* C29 witness: the driver view has two bookings of the online driver under one
\* confirmation number, neither arrived, and one timer runs for the number.
C29_Witness ==
    /\ CurrentView = "driver"
    /\ IsOnline(drivers, loggedInDriver)
    /\ \E i, j \in DOMAIN bookings :
          /\ i < j
          /\ bookings[i].confirmationNumber = bookings[j].confirmationNumber
          /\ bookings[i].driverName = loggedInDriver[1].name
          /\ bookings[j].driverName = loggedInDriver[1].name
          /\ bookings[i].driverStatus # "arrived"
          /\ bookings[j].driverStatus # "arrived"
          /\ windowTimers[bookings[i].confirmationNumber] = 1
          /\ bookings[i].confirmationNumber \in intervalRefs

\* C27: the driverPosition.x of a booking of the store, and of the booking the
\* guest status view shows, is never smaller after a step than before it.
C27_ProgressMonotonic ==
    [][/\ \A i \in DOMAIN bookings :
             bookings'[i].driverPosition >= bookings[i].driverPosition
       /\ (/\ selectedBooking # <<>>
           /\ selectedBooking' # <<>>
           /\ selectedBooking'[1].confirmationNumber
                 = selectedBooking[1].confirmationNumber)
          => selectedBooking'[1].driverPosition >= selectedBooking[1].driverPosition]_vars

\* C28: a booking of the store whose driverStatus is arrived keeps it through
\* every step that leaves the booking non-cancelled.
C28_ArrivedIsFinal ==
    [][\A i \in DOMAIN bookings :
          (/\ bookings[i].driverStatus = "arrived"
           /\ bookings'[i].bookingStatus # "cancelled")
          => bookings'[i].driverStatus = "arrived"]_vars

\* the registry has an online driver of this name
DriverOnline(drvs, driverName) ==
    /\ FindDriver(drvs, driverName) # 0
    /\ drvs[FindDriver(drvs, driverName)].status = "online"

\* C30: while a tracking timer runs for a confirmation number, every booking of
\* the store with that number is non-cancelled, has not arrived, and its driver
\* is online.
C30_TaskOnlyWhileEligible ==
    \A i \in DOMAIN bookings :
        windowTimers[bookings[i].confirmationNumber] > 0
        => /\ bookings[i].bookingStatus # "cancelled"
           /\ bookings[i].driverStatus # "arrived"
           /\ DriverOnline(drivers, bookings[i].driverName)

\* the view that runs the timer of this confirmation number shows the booking
\* as arrived
ShownArrived(cn) ==
    \/ /\ CurrentView = "driver"
       /\ \E i \in DOMAIN bookings :
             /\ bookings[i].confirmationNumber = cn
             /\ bookings[i].driverStatus = "arrived"
    \/ /\ CurrentView = "tracking"
       /\ selectedBooking # <<>>
       /\ selectedBooking[1].confirmationNumber = cn
       /\ selectedBooking[1].driverStatus = "arrived"

\* C26: in a view that stays mounted with the driver online, a booking whose
\* tracking timer runs is eventually shown as arrived.
C26_TrackingReachesArrival ==
    \A cn \in ConfirmationNumbers :
        (windowTimers[cn] > 0) ~> ShownArrived(cn)

\* the progress a callback computed, in milliseconds out of SimDuration, read
\* back from the position it wrote
WrittenProgress(b) == (b.driverPosition - PositionOf(0)) \div 7

\* N = round(15 * (1 - progress)), the nearest integer, halves up
MinutesByRule(progress) == (30 * (SimDuration - progress) + SimDuration) \div (2 * SimDuration)

\* the text the rule gives for a progress
EtaByRule(progress) ==
    IF progress >= SimDuration THEN <<"Arrived">>
    ELSE IF progress > 19000 THEN <<"Arriving now">>
    ELSE IF MinutesByRule(progress) <= 1 THEN <<"Less than a minute">>
    ELSE <<"approx.", MinutesByRule(progress), "mins">>

C32_AssignmentFieldsAgree ==
    \A i \in DOMAIN bookings :
        /\ bookings[i].bookingStatus = "confirmed"
           => /\ bookings[i].driverName = Null
              /\ bookings[i].driverPhone = Null
              /\ bookings[i].assignedVehicle = NullVehicle
        /\ bookings[i].bookingStatus = "assigned"
           => /\ bookings[i].driverName # Null
              /\ bookings[i].assignedVehicle # NullVehicle

\* the record of the logged-in driver, after the step, is offline without a
\* position
LoggedInGoesDark ==
    \A i \in DOMAIN drivers' :
        drivers'[i].username = loggedInDriver[1].username
        => drivers'[i].status = "offline" /\ drivers'[i].position = Null

\* C35: a driver record has a position only while its status is online; the
\* toggle to offline leaves the record of the logged-in driver offline without
\* a position in that step, and so does an error callback of the geolocation
\* watch for the record of its driver.
C35_PositionOnlyOnline ==
    /\ [](\A i \in DOMAIN drivers :
            drivers[i].position # Null => drivers[i].status = "online")
    /\ [][/\ ToggleOffline => LoggedInGoesDark
          /\ ToggleOnlineDenied => LoggedInGoesDark
          /\ \A u \in watches :
                GeoError(u)
                => \A i \in DOMAIN drivers' :
                      drivers'[i].username = u
                      => drivers'[i].status = "offline"
                         /\ drivers'[i].position = Null]_vars

\* C35 witness: the driver logged in on the driver view went online, which
\* registered a geolocation watch, and is offline again without a position,
\* while another driver is online.
C35_Witness ==
    /\ CurrentView = "driver"
    /\ \E i, j \in DOMAIN drivers :
          /\ drivers[i].username = loggedInDriver[1].username
          /\ drivers[i].username \in watches
          /\ drivers[i].status = "offline"
          /\ drivers[i].position = Null
          /\ drivers[j].status = "online"

\* C34: no plate is held by two vehicles of the registry, in one vehicle type
\* or in two.
C34_PlatesUnique ==
    \A s \in DOMAIN vehicleTypes, t \in DOMAIN vehicleTypes :
        \A i \in DOMAIN vehicleTypes[s], j \in DOMAIN vehicleTypes[t] :
            vehicleTypes[s][i].plate = vehicleTypes[t][j].plate
            => s = t /\ i = j

\* C39: no two drivers of the registry have the same username or the same name.
C39_DriversUnambiguous ==
    \A i, j \in DOMAIN drivers :
        (drivers[i].username = drivers[j].username \/ drivers[i].name = drivers[j].name)
        => i = j

\* the bookings of the store whose item shows the assignment form
UnderEdit ==
    {i \in DOMAIN bookings :
        /\ bookings[i].confirmationNumber = isEditingAssignment
        /\ bookings[i].bookingStatus # "cancelled"}

\* C33: for a booking under edit every driver of the registry is listed in
\* exactly one group of the driver select, in Available exactly when a
\* handleSave with that driver's name passes the offline check and the driver
\* overlap check; a vehicle of the booking's type is listed as Available exactly
\* when a handleSave with its plate passes the vehicle overlap check.
C33_ListingAgreesWithAssign ==
    \A i \in UnderEdit :
        /\ \A k \in DOMAIN drivers :
              /\ Cardinality(DriverGroups(bookings, bookings[i], drivers[k])) = 1
              /\ ("Available" \in DriverGroups(bookings, bookings[i], drivers[k]))
                 <=> (SaveError(bookings, drivers, bookings[i], drivers[k].name, "plate")
                        \notin {"driver offline", "driver overlap"})
        /\ \A k \in DOMAIN vehicleTypes[bookings[i].vehicleType] :
              LET v == vehicleTypes[bookings[i].vehicleType][k]
              IN  ("Available" \in VehicleGroups(bookings, bookings[i], v))
                  <=> ~vehicleIsBooked(bookings, bookings[i], v.plate)


\* what tracking writes on a booking
TrackingFields(b) ==
    [driverStatus |-> b.driverStatus, driverPosition |-> b.driverPosition,
     eta |-> b.eta]

\* the stored bookings under the confirmation number of a copy show the
\* tracking fields of the copy
AgreesWithStore(bks, copy) ==
    \A i \in DOMAIN bks :
        bks[i].confirmationNumber = copy.confirmationNumber
            => TrackingFields(bks[i]) = TrackingFields(copy)

\* C36: tracking updates reach the booking store: a timer callback of the guest
\* status view updates the stored booking, so that after it the copies of the
\* booking in selectedBooking and guestBookings show no driverStatus,
\* driverPosition or eta that the stored booking with the same confirmation
\* number does not have.
C36_TrackingReachesStore ==
    [][(\E elapsed \in TrackElapsed : GuestCallback(elapsed))
        => /\ AgreesWithStore(bookings', selectedBooking'[1])
           /\ \A k \in DOMAIN guestBookings' :
                 guestBookings'[k].confirmationNumber
                        = selectedBooking'[1].confirmationNumber
                    => AgreesWithStore(bookings', guestBookings'[k])]_vars


\* a copy of a booking under another confirmation number than `cn` is left as
\* it is
OtherCopyKept(copy, copyAfter, cn) ==
    copy # <<>> /\ copy[1].confirmationNumber # cn => copyAfter = copy

\* C37: a payment success callback for a booking marks only copies of that
\* booking as paid: when the guest has selected or created another booking
\* since the checkout was opened, the copy of the other booking in
\* selectedBooking or lastBooking keeps its paymentStatus and gets no paymentId.
C37_PaymentMarksOnlyItsBooking ==
    [][(\E id \in PaymentIds : PaymentCallback(id))
        => /\ OtherCopyKept(selectedBooking, selectedBooking',
                            checkout[1].booking.confirmationNumber)
           /\ OtherCopyKept(lastBooking, lastBooking',
                            checkout[1].booking.confirmationNumber)]_vars


\* the store `after` differs from the store `before` at most in the bookings
\* under the confirmation number cn
Confined(before, after, cn) ==
    /\ DOMAIN after = DOMAIN before
    /\ \A i \in DOMAIN before :
          before[i].confirmationNumber # cn => after[i] = before[i]

\* the confirmation numbers an operation can be given
GivenNumbers == ConfirmationNumbers \cup {"CN0"}

\* in this state, each store update of assign, cancel and markPaid is confined
\* to the confirmation number it is given
UpdatesConfined ==
    \A cn \in GivenNumbers :
        /\ Confined(bookings, CancelStore(bookings, cn), cn)
        /\ \A id \in PaymentIds :
              Confined(bookings, PayStore(bookings, cn, id), cn)
        /\ \A d \in DriverChoices, v \in VehicleChoices :
              Confined(bookings,
                       AssignStore(bookings, drivers, vehicleTypes, cn, d, v), cn)

\* C38: assign, cancel and markPaid applied to a confirmation number change no
\* stored booking under another confirmation number, and leave the store as it
\* is when no booking has that number; the handlers handleSave,
\* handleCancelBooking and the payment success handler write the store in no
\* other way.
C38_OperationsConfined ==
    /\ []UpdatesConfined
    /\ [][bookings' # bookings
          => /\ \A i \in 1..MaxBookings, d \in DriverChoices, v \in VehicleChoices :
                   handleSave(i, d, v)
                      => Confined(bookings, bookings',
                                  bookings[i].confirmationNumber)
             /\ \A i \in 1..MaxBookings :
                   AdminCancel(i)
                      => Confined(bookings, bookings',
                                  bookings[i].confirmationNumber)
             /\ GuestCancel
                   => Confined(bookings, bookings',
                               selectedBooking[1].confirmationNumber)
             /\ \A id \in PaymentIds :
                   /\ PayLastBooking(id)
                         => Confined(bookings, bookings',
                                     lastBooking[1].confirmationNumber)
                   /\ PaySelectedBooking(id)
                         => Confined(bookings, bookings',
                                     selectedBooking[1].confirmationNumber)]_vars

\* C38 witness: of two stored bookings under different confirmation numbers
\* one has been assigned and paid, and the other is as it was created.
C38_Witness ==
    \E i, j \in DOMAIN bookings :
        /\ bookings[i].confirmationNumber # bookings[j].confirmationNumber
        /\ bookings[i].bookingStatus = "assigned"
        /\ bookings[i].paymentStatus = "paid"
        /\ bookings[j].bookingStatus = "confirmed"
        /\ bookings[j].paymentStatus = "pending"
        /\ bookings[j].driverName = Null

====
